---- MODULE Spec2Model ----
(***************************************************************************)
(* A model of iumslib: the naming classifier, the one-hot encoder, the      *)
(* dataset packager and the partitioner of iumsutils.py, and the radar      *)
(* charts and the Fermi plot of plotutils.py.                               *)
(*                                                                         *)
(* Strings are sequences of one-character strings, so that the regular     *)
(* expressions of the source are modelled by what they match, character by *)
(* character.                                                              *)
(***************************************************************************)
EXTENDS Integers, Sequences, FiniteSets, TLC

\* ------------------------------------------------------------------ bounds

\* The longest token sequence a generated instance name is built from.
MaxTokens == 3

\* The longest list of labels handed to one_hot_mapping.
MaxLabels == 3

\* The largest number of rows of a csv file.
MaxRows == 3

\* The largest number of entries a dataset is filled from.
MaxEntries == 3

\* The largest number of calls made on the chart classes in one run.
MaxCalls == 3

\* ------------------------------------------------------------- characters

\* The characters of the model, in code-point order (Python compares and
\* sorts strings by code point).
Alphabet ==
  << " ", "+", "-",
     "0", "1", "2", "3", "4", "5", "6", "7", "8", "9",
     "A", "B", "C", "D", "E", "F", "G", "H", "I", "J", "K", "L", "M",
     "N", "O", "P", "Q", "R", "S", "T", "U", "V", "W", "X", "Y", "Z",
     "a", "b", "c", "d", "e", "f", "g", "h", "i", "j", "k", "l", "m",
     "n", "o", "p", "q", "r", "s", "t", "u", "v", "w", "x", "y", "z" >>

Chars == {Alphabet[i] : i \in 1..Len(Alphabet)}

\* The position of a character in code-point order.
Ord == [c \in Chars |-> CHOOSE i \in 1..Len(Alphabet) : Alphabet[i] = c]

Digits == {"0", "1", "2", "3", "4", "5", "6", "7", "8", "9"}

UpperCase == {Alphabet[i] : i \in 14..39}

\* Case folding, as the (?i) flag of re applies it to both sides.
LowerOf == [c \in Chars |-> IF c \in UpperCase THEN Alphabet[Ord[c] + 26] ELSE c]

\* \d
IsDigit(c) == c \in Digits

\* \s (the space is the model's one whitespace character)
IsSpace(c) == c = " "

Min(S) == CHOOSE x \in S : \A y \in S : x <= y

\* ------------------------------------------------------- regular expressions

\* The literal pattern pat matches s at position i, ignoring case: (?i)pat
MatchIgnoreCase(s, pat, i) ==
  /\ i >= 1
  /\ i + Len(pat) - 1 <= Len(s)
  /\ \A k \in 1..Len(pat) : LowerOf[s[i + k - 1]] = LowerOf[pat[k]]

\* Mutant of SearchAtEnd: the \Z anchor is lost, the suffix may sit anywhere.
SearchAnywhere(s, suffix) ==
  \E i \in 1..Len(s) : MatchIgnoreCase(s, suffix, i)

\* re.search(f'(?i){suffix}\Z', s)
SearchAtEnd(s, suffix) ==
  /\ Len(suffix) <= Len(s)
  /\ MatchIgnoreCase(s, suffix, Len(s) - Len(suffix) + 1)

\* The pattern (\s|-)\d+\s*\Z matches s from position i to the end of s.
NumericSuffixAt(s, i) ==
  /\ i \in 1..Len(s)
  /\ (IsSpace(s[i]) \/ s[i] = "-")
  /\ \E j \in (i + 1)..Len(s) :
       /\ \A k \in (i + 1)..j : IsDigit(s[k])
       /\ \A k \in (j + 1)..Len(s) : IsSpace(s[k])

\* ---------------------------------------------------------- isolate_species

\* Mutant of isolate_species: the separator is optional, (\s|-)?\d+\s*\Z.
isolate_species_optional_separator(instance_name) ==
  LET n == Len(instance_name)
      starts == {i \in 1..n :
                   \/ NumericSuffixAt(instance_name, i)
                   \/ /\ IsDigit(instance_name[i])
                      /\ \E j \in i..n :
                           /\ \A k \in i..j : IsDigit(instance_name[k])
                           /\ \A k \in (j + 1)..n : IsSpace(instance_name[k])}
  IN  IF starts = {} THEN instance_name
      ELSE SubSeq(instance_name, 1, Min(starts) - 1)

\* re.sub('(\s|-)\d+\s*\Z', '', instance_name): the leftmost match is cut
\* out; it reaches the end of the name, so there is no second match.
isolate_species(instance_name) ==
  LET starts == {i \in 1..Len(instance_name) : NumericSuffixAt(instance_name, i)}
  IN  IF starts = {} THEN instance_name
      ELSE SubSeq(instance_name, 1, Min(starts) - 1)

\* --------------------------------------------------------------- get_family

\* The family labels, spelled out like every other string.
Acetates == <<"A", "c", "e", "t", "a", "t", "e", "s">>

Alcohols == <<"A", "l", "c", "o", "h", "o", "l", "s">>

Aldehydes == <<"A", "l", "d", "e", "h", "y", "d", "e", "s">>

Alkanes == <<"A", "l", "k", "a", "n", "e", "s">>

Alkenes == <<"A", "l", "k", "e", "n", "e", "s">>

Alkynes == <<"A", "l", "k", "y", "n", "e", "s">>

Amines == <<"A", "m", "i", "n", "e", "s">>

CarboxylicAcids == <<"C", "a", "r", "b", "o", "x", "y", "l", "i", "c", " ", "A", "c", "i", "d", "s">>

Ethers == <<"E", "t", "h", "e", "r", "s">>

Ketones == <<"K", "e", "t", "o", "n", "e", "s">>

Unknown == <<"U", "n", "k", "n", "o", "w", "n">>

\* Mutant of iupac_suffices: the suffix of the alkanes is cut to 'ne', which
\* also ends the suffixes of the alkenes, alkynes, amines and ketones.
iupac_suffices_overlapping ==
  << [suffix |-> <<"a", "t", "e">>, family |-> Acetates],
     [suffix |-> <<"o", "l">>, family |-> Alcohols],
     [suffix |-> <<"a", "l">>, family |-> Aldehydes],
     [suffix |-> <<"n", "e">>, family |-> Alkanes],
     [suffix |-> <<"e", "n", "e">>, family |-> Alkenes],
     [suffix |-> <<"y", "n", "e">>, family |-> Alkynes],
     [suffix |-> <<"i", "n", "e">>, family |-> Amines],
     [suffix |-> <<"o", "i", "c", " ", "a", "c", "i", "d">>, family |-> CarboxylicAcids],
     [suffix |-> <<"e", "t", "h", "e", "r">>, family |-> Ethers],
     [suffix |-> <<"o", "n", "e">>, family |-> Ketones] >>

\* The suffix table, in the order the dict is written (and iterated).
iupac_suffices ==
  << [suffix |-> <<"a", "t", "e">>, family |-> Acetates],
     [suffix |-> <<"o", "l">>, family |-> Alcohols],
     [suffix |-> <<"a", "l">>, family |-> Aldehydes],
     [suffix |-> <<"a", "n", "e">>, family |-> Alkanes],
     [suffix |-> <<"e", "n", "e">>, family |-> Alkenes],
     [suffix |-> <<"y", "n", "e">>, family |-> Alkynes],
     [suffix |-> <<"i", "n", "e">>, family |-> Amines],
     [suffix |-> <<"o", "i", "c", " ", "a", "c", "i", "d">>, family |-> CarboxylicAcids],
     [suffix |-> <<"e", "t", "h", "e", "r">>, family |-> Ethers],
     [suffix |-> <<"o", "n", "e">>, family |-> Ketones] >>

\* Mutant of get_family: the loop has no else branch, and a name that no
\* suffix matches falls off the end of the function (None).
get_family_no_else(species) ==
  LET hits == {i \in 1..Len(iupac_suffices) :
                 SearchAtEnd(isolate_species(species), iupac_suffices[i].suffix)}
  IN  IF hits = {} THEN <<"N", "o", "n", "e">> ELSE iupac_suffices[Min(hits)].family

\* The for loop returns at the first suffix that matches; its else branch
\* (no break) returns 'Unknown'.
get_family(species) ==
  LET hits == {i \in 1..Len(iupac_suffices) :
                 SearchAtEnd(isolate_species(species), iupac_suffices[i].suffix)}
  IN  IF hits = {} THEN Unknown ELSE iupac_suffices[Min(hits)].family

\* The loop of get_family over a rule table given in another order.
get_family_in(table, species) ==
  LET isolated == isolate_species(species)
      hits == {i \in 1..Len(table) : SearchAtEnd(isolated, table[i].suffix)}
  IN  IF hits = {} THEN Unknown ELSE table[Min(hits)].family

\* ------------------------------------------------------ get_carbon_ordering

\* The value returned for a name with no carbon-count affix.
Sentinel == 100

\* The affix table in dict order; ahead is the negative lookahead (?!...) of
\* the pattern, empty where the pattern has none.
iupac_numbering ==
  << [affix |-> <<"m", "e", "t", "h">>, ahead |-> <<>>, number |-> 1],
     [affix |-> <<"e", "t", "h">>, ahead |-> <<"e", "r">>, number |-> 2],
     [affix |-> <<"p", "r", "o", "p">>, ahead |-> <<>>, number |-> 3],
     [affix |-> <<"b", "u", "t">>, ahead |-> <<>>, number |-> 4],
     [affix |-> <<"p", "e", "n", "t">>, ahead |-> <<>>, number |-> 5],
     [affix |-> <<"h", "e", "x">>, ahead |-> <<>>, number |-> 6],
     [affix |-> <<"h", "e", "p", "t">>, ahead |-> <<>>, number |-> 7],
     [affix |-> <<"o", "c", "t">>, ahead |-> <<>>, number |-> 8],
     [affix |-> <<"n", "o", "n">>, ahead |-> <<"e">>, number |-> 9],
     [affix |-> <<"d", "e", "c">>, ahead |-> <<>>, number |-> 10] >>

\* Mutant of AffixAt: the negative lookahead is dropped.
AffixAtNoLookahead(s, a, i) == MatchIgnoreCase(s, a.affix, i)

\* The pattern (?i){affix} matches s at position i: the affix, not followed
\* by its lookahead.
AffixAt(s, a, i) ==
  /\ MatchIgnoreCase(s, a.affix, i)
  /\ \/ a.ahead = <<>>
     \/ ~MatchIgnoreCase(s, a.ahead, i + Len(a.affix))

\* re.search(f'(?i){affix}', species): anywhere in the word
AffixFound(s, a) == \E i \in 1..Len(s) : AffixAt(s, a, i)

\* Mutant of PrefixedAffixFound: a hyphen may separate iso from the affix,
\* (iso-?|sec-){affix}.
PrefixedAffixFoundOptionalHyphen(s, a) ==
  \E i \in 1..Len(s) :
    \/ MatchIgnoreCase(s, <<"i", "s", "o">>, i) /\ AffixAt(s, a, i + 3)
    \/ MatchIgnoreCase(s, <<"i", "s", "o", "-">>, i) /\ AffixAt(s, a, i + 4)
    \/ MatchIgnoreCase(s, <<"s", "e", "c", "-">>, i) /\ AffixAt(s, a, i + 4)

\* re.search(f'(?i)(iso|sec-){affix}', species)
PrefixedAffixFound(s, a) ==
  \E i \in 1..Len(s) :
    \/ MatchIgnoreCase(s, <<"i", "s", "o">>, i) /\ AffixAt(s, a, i + 3)
    \/ MatchIgnoreCase(s, <<"s", "e", "c", "-">>, i) /\ AffixAt(s, a, i + 4)

\* The result is kept in half units, twice the number Python returns
\* (number + 0.5*bool): 9 stands for 4.5 and 2*Sentinel for 100.
get_carbon_ordering(species) ==
  LET hits == {k \in 1..Len(iupac_numbering) : AffixFound(species, iupac_numbering[k])}
  IN  IF hits = {} THEN 2 * Sentinel
      ELSE LET a == iupac_numbering[Min(hits)]
           IN  2 * a.number + (IF PrefixedAffixFound(species, a) THEN 1 ELSE 0)

\* ------------------------------------------------------------ instance names

RECURSIVE Flatten(_)
Flatten(ts) == IF ts = <<>> THEN <<>> ELSE Head(ts) \o Flatten(Tail(ts))

\* The tokens generated names are concatenated from: the separators and a
\* digit, the two prefixes, and the affixes and endings whose patterns
\* overlap (meth/eth/ether, non/none/one).
CoreTokens ==
  { <<"-">>, <<" ">>, <<"1">>,
    <<"I", "s", "o">>, <<"s", "e", "c", "-">>,
    <<"b", "u", "t">>, <<"m", "e", "t", "h">>, <<"e", "t", "h">>, <<"e", "r">>,
    <<"n", "o", "n">>, <<"e">>, <<"o", "l">> }

TokenNames ==
  {Flatten(ts) : ts \in UNION {[1..n -> CoreTokens] : n \in 0..MaxTokens}}

\* Every affix of the one table followed by every suffix of the other.
TableNames ==
  LET affixes == {iupac_numbering[k].affix : k \in 1..Len(iupac_numbering)} \cup {<<>>}
      suffixes == {iupac_suffices[k].suffix : k \in 1..Len(iupac_suffices)} \cup {<<>>}
  IN  {a \o s : a \in affixes, s \in suffixes}

\* The names the specification and the source's comments mention.
ExampleNames ==
  { <<"I", "s", "o", "-", "B", "u", "t", "a", "n", "o", "l">>,
    <<"I", "s", "o", "b", "u", "t", "a", "n", "o", "l">>,
    <<"I", "s", "o", "B", "u", "t", "a", "n", "o", "l">>,
    <<"I", "s", "o", "-", "B", "u", "t", "a", "n", "o", "l", "-", "3">>,
    <<"E", "t", "h", "a", "n", "o", "l", "-", "1">>,
    <<"E", "t", "h", "a", "n", "o", "l", "1">>,
    <<"M", "e", "t", "h", "a", "n", "o", "l", "-", "1">>,
    <<"P", "e", "n", "t", "a", "n", "o", "l", "-", "2", " ", "1">>,
    <<"2", "-", "P", "r", "o", "p", "a", "n", "o", "l", "-", "1">>,
    <<"S", "e", "c", "-", "B", "u", "t", "y", "l", " ", "A", "c", "e", "t", "a", "t", "e">>,
    <<"S", "e", "c", " ", "B", "u", "t", "y", "l", " ", "A", "c", "e", "t", "a", "t", "e">>,
    <<"M", "e", "t", "h", "y", "l", "-", "i", "B", "u", "-", "K", "e", "t", "o", "n", "e">>,
    <<"P", "i", "n", "a", "c", "o", "l", "o", "n", "e">>,
    <<"E", "t", "h", "e", "r">>,
    <<"N", "o", "n", "e", "n", "e">> }

Names == TokenNames \cup TableNames \cup ExampleNames

\* ------------------------------------------------------ sorting, counting

\* a < b, as Python compares two strings: by code point at the first
\* difference, a proper prefix being the smaller.
StrLess(a, b) ==
  \E i \in 1..(Len(a) + 1) :
    /\ i <= Len(b)
    /\ \A j \in 1..(i - 1) : a[j] = b[j]
    /\ i > Len(a) \/ Ord[a[i]] < Ord[b[i]]

\* set(data)
Range(data) == {data[i] : i \in 1..Len(data)}

\* sorted(S) of a set of strings
RECURSIVE sorted(_)
sorted(S) ==
  IF S = {} THEN <<>>
  ELSE LET least == CHOOSE x \in S : \A y \in S \ {x} : StrLess(x, y)
       IN  <<least>> \o sorted(S \ {least})

\* The distinct items in the order they first occur: what is left of
\* sorted(set(data)) when the sort is lost.
RECURSIVE FirstOccurrences(_)
FirstOccurrences(data) ==
  IF data = <<>> THEN <<>>
  ELSE LET front == FirstOccurrences(SubSeq(data, 1, Len(data) - 1))
           last == data[Len(data)]
       IN  IF last \in Range(front) THEN front ELSE Append(front, last)

\* Mutant of Counter: every item that occurs is counted once.
Counter_of_distinct(data) == [x \in Range(data) |-> 1]

\* collections.Counter(data)
Counter(data) ==
  [x \in Range(data) |-> Cardinality({i \in 1..Len(data) : data[i] = x})]

\* Mutant of ordered_and_counted: the distinct items are not sorted.
ordered_and_counted_unsorted(iterable) ==
  <<FirstOccurrences(iterable), Counter(iterable)>>

\* The pair (sorted(set(data)), Counter(data)).
ordered_and_counted(iterable) ==
  <<sorted(Range(iterable)), Counter(iterable)>>

\* ------------------------------------------------------- one_hot_mapping

\* Mutant of one_hot_mapping: the items are sorted and deduplicated first.
one_hot_mapping_sorted_distinct(iterable) ==
  LET items == sorted(Range(iterable))
  IN  [value \in Range(items) |->
         [i \in 1..Len(items) |-> IF items[i] = value THEN 1 ELSE 0]]

\* Mutant of one_hot_mapping: the items are sorted first.
one_hot_mapping_sorted(iterable) ==
  LET items == SortSeq(iterable, StrLess)
  IN  [value \in Range(items) |->
         [i \in 1..Len(items) |-> IF items[i] = value THEN 1 ELSE 0]]

\* {value : tuple(int(val == value) for val in items) for value in items}:
\* a dict keyed by the items, each vector as long as the list of items.
one_hot_mapping(iterable) ==
  [value \in Range(iterable) |->
     [i \in 1..Len(iterable) |-> IF iterable[i] = value THEN 1 ELSE 0]]

\* ------------------------------------------------------------------ jsonize

\* The names to flag and their replacements, in dict order.
rep_flags ==
  << [flag |-> <<"M", "I", "B", "K">>,
      replacement |-> <<"M", "e", "t", "h", "y", "l", "-", "i", "B", "u", "-", "K", "e", "t", "o", "n", "e">>],
     [flag |-> <<"P", "r", "o", "p", "a", "n", "o", "l">>,
      replacement |-> <<"1", "-", "P", "r", "o", "p", "a", "n", "o", "l">>],
     [flag |-> <<"B", "u", "t", "a", "n", "o", "l">>,
      replacement |-> <<"1", "-", "B", "u", "t", "a", "n", "o", "l">>],
     [flag |-> <<"P", "e", "n", "t", "a", "n", "o", "l">>,
      replacement |-> <<"1", "-", "P", "e", "n", "t", "a", "n", "o", "l">>],
     [flag |-> <<"H", "e", "x", "a", "n", "o", "l">>,
      replacement |-> <<"1", "-", "H", "e", "x", "a", "n", "o", "l">>],
     [flag |-> <<"H", "e", "p", "t", "a", "n", "o", "l">>,
      replacement |-> <<"1", "-", "H", "e", "p", "t", "a", "n", "o", "l">>],
     [flag |-> <<"O", "c", "t", "a", "n", "o", "l">>,
      replacement |-> <<"1", "-", "O", "c", "t", "a", "n", "o", "l">>],
     [flag |-> <<"I", "s", "o", "B", "u", "t", "a", "n", "o", "l">>,
      replacement |-> <<"I", "s", "o", "b", "u", "t", "a", "n", "o", "l">>],
     [flag |-> <<"I", "s", "o", "-", "B", "u", "t", "a", "n", "o", "l">>,
      replacement |-> <<"I", "s", "o", "b", "u", "t", "a", "n", "o", "l">>],
     [flag |-> <<"S", "e", "c", " ", "B", "u", "t", "y", "l", " ", "A", "c", "e", "t", "a", "t", "e">>,
      replacement |-> <<"S", "e", "c", "-", "B", "u", "t", "y", "l", " ", "A", "c", "e", "t", "a", "t", "e">>],
     [flag |-> <<"S", "e", "c", "b", "u", "t", "y", "l", " ", "A", "c", "e", "t", "a", "t", "e">>,
      replacement |-> <<"S", "e", "c", "-", "B", "u", "t", "y", "l", " ", "A", "c", "e", "t", "a", "t", "e">>] >>

\* rep_flags.get(species, species)
rep_flags_get(species) ==
  LET hits == {i \in 1..Len(rep_flags) : rep_flags[i].flag = species}
  IN  IF hits = {} THEN species ELSE rep_flags[Min(hits)].replacement

\* The species compiled as a regular expression, f'\A{species}': of the
\* characters of the model "+" alone is special in a pattern, repeating the
\* character before it one or more times.  The atoms of the pattern are its
\* characters, each with whether a "+" follows it.  (A "+" with no character
\* to repeat does not occur in the names of the model.)
RECURSIVE PatternAtoms(_)
PatternAtoms(pat) ==
  IF pat = <<>> THEN <<>>
  ELSE IF Len(pat) >= 2 /\ pat[2] = "+"
       THEN <<[char |-> pat[1], plus |-> TRUE]>>
              \o PatternAtoms(SubSeq(pat, 3, Len(pat)))
       ELSE <<[char |-> pat[1], plus |-> FALSE]>> \o PatternAtoms(Tail(pat))

\* The atoms from the k-th on match s from position i: the position of the
\* last character matched, as the backtracking matcher of re finds it (a
\* repetition takes as many characters as leave the rest matching), or -1
\* if there is no match.
RECURSIVE MatchAtoms(_, _, _, _)
MatchAtoms(atoms, k, s, i) ==
  IF k > Len(atoms) THEN i - 1
  ELSE IF i > Len(s) \/ s[i] # atoms[k].char THEN -1
  ELSE IF ~atoms[k].plus THEN MatchAtoms(atoms, k + 1, s, i + 1)
  ELSE LET run == {n \in 1..(Len(s) - i + 1) :
                     \A j \in i..(i + n - 1) : s[j] = atoms[k].char}
           fits == {n \in run : MatchAtoms(atoms, k + 1, s, i + n) # -1}
       IN  IF fits = {} THEN -1
           ELSE MatchAtoms(atoms, k + 1, s,
                           i + (CHOOSE n \in fits : \A m \in fits : m <= n))

\* re.sub(f'\A{species}', rep_flags.get(species, species), name) with
\* species = isolate_species(name): what the pattern matches at the start
\* of the name is replaced (the replacements of the model hold no
\* backslash, they are literal); \A allows no second match.
corrected_name(name_) ==
  LET species_ == isolate_species(name_)
      last == MatchAtoms(PatternAtoms(species_), 1, name_, 1)
  IN  IF last = -1 THEN name_
      ELSE rep_flags_get(species_) \o SubSeq(name_, last + 1, Len(name_))

\* Mutant of spectrum_mismatch: only a longer spectrum is refused.
spectrum_mismatch_longer_only(spectrum, size) ==
  size # <<>> /\ Len(spectrum) > size[1]

\* len(spectrum) != spectrum_size, with spectrum_size assigned; while it is
\* unassigned the comparison raises NameError, which the except clause
\* catches.  size is <<>> while spectrum_size is unassigned, else <<n>>.
spectrum_mismatch(spectrum, size) ==
  size # <<>> /\ Len(spectrum) # size[1]

\* Mutant of first_spectrum_size: the length of the whole row, name included.
first_spectrum_size_of_row(spectrum) == Len(spectrum) + 1

\* spectrum_size = len(spectrum), in the except clause
first_spectrum_size(spectrum) == Len(spectrum)

\* temp_dict[name] = spectrum.  A dict keeps its keys in insertion order and
\* a key that is assigned again keeps its place: temp_dict is the sequence
\* of its items.
dict_set(d, key, value) ==
  LET at == {i \in 1..Len(d) : d[i].name = key}
  IN  IF at = {} THEN Append(d, [name |-> key, spectrum |-> value])
      ELSE [d EXCEPT ![Min(at)].spectrum = value]

\* packaged_data, as built from temp_dict after the loop.
packaged_data(d, size) ==
  LET keys == [i \in 1..Len(d) |-> d[i].name]
      sc == ordered_and_counted([i \in 1..Len(d) |-> isolate_species(keys[i])])
      fc == ordered_and_counted([i \in 1..Len(d) |-> get_family(keys[i])])
      mapping_ == one_hot_mapping(fc[1])
  IN  [chem_data |->
         [i \in 1..Len(d) |->
            [name |-> d[i].name,
             species |-> isolate_species(d[i].name),
             family |-> get_family(d[i].name),
             spectrum |-> d[i].spectrum,
             vector |-> mapping_[get_family(d[i].name)]]],
       species |-> sc[1],
       families |-> fc[1],
       family_mapping |-> mapping_,
       spectrum_size |-> size[1],
       species_count |-> sc[2],
       family_count |-> fc[2]]

\* ------------------------------------------------------------------ numbers

\* The floats of the program are modelled by exact rationals <<n, d>> in
\* lowest terms with d > 0, and its complex numbers by pairs of them.
Abs(n) == IF n < 0 THEN -n ELSE n

RECURSIVE GCD(_, _)
GCD(a, b) == IF b = 0 THEN a ELSE GCD(b, a % b)

Rat(n, d) ==
  LET g == GCD(Abs(n), Abs(d))
      sign == IF d < 0 THEN -1 ELSE 1
  IN  <<(sign * n) \div g, (sign * d) \div g>>

RatAdd(p, q) == Rat(p[1] * q[2] + q[1] * p[2], p[2] * q[2])

RatTimes(p, k) == Rat(p[1] * k, p[2])

\* p / k for an integer k # 0
RatOver(p, k) == Rat(p[1], p[2] * k)

RatLess(p, q) == p[1] * q[2] < q[1] * p[2]

Complex(re_, im_) == [re |-> Rat(re_, 1), im |-> Rat(im_, 1)]

ComplexAdd(z, w) == [re |-> RatAdd(z.re, w.re), im |-> RatAdd(z.im, w.im)]

ComplexTimes(z, k) == [re |-> RatTimes(z.re, k), im |-> RatTimes(z.im, k)]

ComplexOver(z, k) == [re |-> RatOver(z.re, k), im |-> RatOver(z.im, k)]

\* sum(points), from the 0 that sum starts with
RECURSIVE ComplexSum(_)
ComplexSum(points) ==
  IF points = <<>> THEN Complex(0, 0)
  ELSE ComplexAdd(ComplexSum(SubSeq(points, 1, Len(points) - 1)),
                  points[Len(points)])

\* ------------------------------------------------------------- radar charts

\* Mutant of Poles: the roots of unity are taken clockwise.
Poles_clockwise(N) ==
  CASE N = 0 -> <<>>
    [] N = 1 -> <<Complex(1, 0)>>
    [] N = 2 -> <<Complex(1, 0), Complex(-1, 0)>>
    [] N = 4 -> <<Complex(1, 0), Complex(0, -1), Complex(-1, 0), Complex(0, 1)>>

\* [cmath.exp(1j * i * cmath.tau / N) for i in range(N)]: the N-th roots of
\* unity, exact for the axis counts of the model (0, 1, 2 and 4).
Poles(N) ==
  CASE N = 0 -> <<>>
    [] N = 1 -> <<Complex(1, 0)>>
    [] N = 2 -> <<Complex(1, 0), Complex(-1, 0)>>
    [] N = 4 -> <<Complex(1, 0), Complex(0, 1), Complex(-1, 0), Complex(0, -1)>>

\* Mapped_Unit_Circle(mapping); a mapping is modelled by its keys in order.
Mapped_Unit_Circle(mapping_) ==
  [mapping |-> mapping_,
   N |-> Len(mapping_),
   labels |-> mapping_,
   poles |-> Poles(Len(mapping_))]

\* An attribute that is None.
None == <<>>

\* A chart whose construction raised.
Raised(exc) == [exception |-> exc]

\* Mutant of Base_RC: the centroid is the sum of the points.
Base_RC_sum(title_, points_) ==
  IF points_ = <<>> THEN Raised("ZeroDivisionError")
  ELSE [exception |-> "none", title |-> title_, points |-> points_,
        centroid |-> ComplexSum(points_)]

\* Base_RC(title, points): centroid = sum(points)/len(points), which for no
\* points is the int 0 over the int 0 and raises ZeroDivisionError.
Base_RC(title_, points_) ==
  IF points_ = <<>> THEN Raised("ZeroDivisionError")
  ELSE [exception |-> "none", title |-> title_, points |-> points_,
        centroid |-> ComplexOver(ComplexSum(points_), Len(points_))]

\* d[key] of a dict d modelled as the sequence of its items, or None if the
\* key is missing (where the program raises KeyError).
Lookup(d, key) ==
  LET at == {i \in 1..Len(d) : d[i].key = key}
  IN  IF at = {} THEN None ELSE <<d[Min(at)].value>>

\* dataset[get_family(name)][isolate_species(name)], or None
SpeciesEntry(dataset_, name_) ==
  LET fam == Lookup(dataset_, get_family(name_))
  IN  IF fam = None THEN None ELSE Lookup(fam[1], isolate_species(name_))

\* zip(aavs, poles): as long as the shorter of the two
Zip(aavs, poles_) ==
  [k \in 1..(IF Len(aavs) < Len(poles_) THEN Len(aavs) ELSE Len(poles_)) |->
     <<aavs[k], poles_[k]>>]

\* Instance_RC(dataset, inst_name), with Base_RC.unit_circle as it is at
\* the call: the lookup, the axial points, the centroid scaled by N.
Instance_RC(base_uc, dataset_, inst_name) ==
  LET entry == SpeciesEntry(dataset_, inst_name)
      aavs == IF entry = None THEN None ELSE Lookup(entry[1], inst_name)
  IN  IF aavs = None THEN Raised("KeyError")
      ELSE IF base_uc = None THEN Raised("AttributeError")
      ELSE LET pairs == Zip(aavs[1], base_uc[1].poles)
               axial_points ==
                 [k \in 1..Len(pairs) |-> ComplexTimes(pairs[k][2], pairs[k][1])]
               chart_ == Base_RC(inst_name, axial_points)
           IN  IF chart_.exception # "none" THEN chart_
               ELSE [chart_ EXCEPT !.centroid = ComplexTimes(@, base_uc[1].N)]

\* Mutant of Centroids: a chart whose construction raised is left out.
Centroids_skipping(charts) ==
  LET made == SelectSeq(charts, LAMBDA c : c.exception = "none")
  IN  [exception |-> "none",
       centroids |-> [i \in 1..Len(made) |-> made[i].centroid]]

\* The centroids of a list of charts, or the first exception among them,
\* as a list comprehension over constructions yields them.
Centroids(charts) ==
  LET failed == {i \in 1..Len(charts) : charts[i].exception # "none"}
  IN  IF failed = {}
      THEN [exception |-> "none",
            centroids |-> [i \in 1..Len(charts) |-> charts[i].centroid]]
      ELSE Raised(charts[Min(failed)].exception)

\* Mutant of ChartOver: the centroid is the mean over the points of the
\* charts below taken together, each chart weighing as its points are many.
ChartOver_weighted(title_, charts) ==
  LET below == Centroids(charts)
      leaves == Flatten([i \in 1..Len(charts) |-> charts[i].points])
  IN  IF below.exception # "none" THEN below
      ELSE IF charts = <<>> THEN Raised("ZeroDivisionError")
      ELSE [exception |-> "none", title |-> title_,
            points |-> below.centroids,
            centroid |-> ComplexOver(ComplexSum(leaves), Len(leaves))]

\* A chart from the centroids of the charts below it.
ChartOver(title_, charts) ==
  LET below == Centroids(charts)
  IN  IF below.exception # "none" THEN below
      ELSE Base_RC(title_, below.centroids)

\* Species_RC(dataset, species)
Species_RC(base_uc, dataset_, species_) ==
  LET entry == SpeciesEntry(dataset_, species_)
  IN  IF entry = None THEN Raised("KeyError")
      ELSE ChartOver(species_,
             [i \in 1..Len(entry[1]) |->
                Instance_RC(base_uc, dataset_, entry[1][i].key)])

\* Family_RC(dataset, family)
Family_RC(base_uc, dataset_, family_) ==
  LET fam == Lookup(dataset_, family_)
  IN  IF fam = None THEN Raised("KeyError")
      ELSE ChartOver(family_,
             [i \in 1..Len(fam[1]) |->
                Species_RC(base_uc, dataset_, fam[1][i].key)])

\* Macro_RC(dataset)
Macro_RC(base_uc, dataset_) ==
  ChartOver(<<"A", "l", "l", " ", "F", "a", "m", "i", "l", "i", "e", "s">>,
    [i \in 1..Len(dataset_) |-> Family_RC(base_uc, dataset_, dataset_[i].key)])

\* ------------------------------------------------------------------ inputs

\* Labels: one a proper prefix of another, capitals before small letters.
Labels == {<<"a">>, <<"a", "b">>, <<"B">>}

LabelLists == UNION {[1..n -> Labels] : n \in 0..MaxLabels}

\* The orders a list of n items can be handed over in.
Permutations_(n) ==
  {f \in [1..n -> 1..n] : \A i, j \in 1..n : f[i] = f[j] => i = j}

Permuted(list, f) == [i \in 1..Len(list) |-> list[f[i]]]

\* Instance names of the rows: two instances of a species, two spellings
\* that name correction merges, three families, and a name with a character
\* that is special in a regular expression.
RowNames ==
  {
    <<"2", "-", "P", "r", "o", "p", "a", "n", "o", "l", "-", "1">>,
    <<"2", "-", "P", "r", "o", "p", "a", "n", "o", "l", "-", "2">>,
    <<"I", "s", "o", "B", "u", "t", "a", "n", "o", "l", "-", "1">>,
    <<"I", "s", "o", "-", "B", "u", "t", "a", "n", "o", "l", "-", "1">>,
    <<"A", "c", "e", "t", "o", "n", "e", "-", "1">>,
    <<"N", "a", "+", "-", "1">> }

\* Spectra of two lengths.
Spectra == {<<1>>, <<1, 2>>}

Rows == [name : RowNames, spectrum : Spectra]

RowLists == UNION {[1..n -> Rows] : n \in 0..MaxRows}

\* What a dataset is filled from: an instance with its aavs, or a species
\* or a family that is entered with nothing in it.
RadarInstances ==
  { <<"E", "t", "h", "a", "n", "o", "l", "-", "1">>,
    <<"E", "t", "h", "a", "n", "o", "l", "-", "2">>,
    <<"M", "e", "t", "h", "a", "n", "o", "l", "-", "1">>,
    <<"A", "c", "e", "t", "o", "n", "e", "-", "1">> }

RadarSpecies == {isolate_species(n) : n \in RadarInstances}

RadarFamilies == {get_family(n) : n \in RadarInstances}

\* Axial values (aavs) of an instance.
Aavs == {<<1, 0>>, <<0, 2>>}

Entries ==
  [level : {"instance"}, name : RadarInstances, aavs : Aavs]
    \cup [level : {"instance"},
          name : {<<"M", "e", "t", "h", "a", "n", "o", "l", "-", "1">>},
          aavs : {<<>>}]
    \cup [level : {"species"}, name : {<<"M", "e", "t", "h", "a", "n", "o", "l">>},
          aavs : {<<>>}]
    \cup [level : {"family"}, name : {Ketones}, aavs : {<<>>}]

\* d.setdefault(key, default) and d[key] = value on a dict as the sequence
\* of its items
DictSetDefault(d, key_, default) ==
  IF \E i \in 1..Len(d) : d[i].key = key_ THEN d
  ELSE Append(d, [key |-> key_, value |-> default])

DictPut(d, key_, value_) ==
  LET at == {i \in 1..Len(d) : d[i].key = key_}
  IN  IF at = {} THEN Append(d, [key |-> key_, value |-> value_])
      ELSE [d EXCEPT ![Min(at)].value = value_]

\* The dataset with an entry filed under its family and its species.
Entered(d, e) ==
  LET f == IF e.level = "family" THEN e.name ELSE get_family(e.name)
      sp == IF e.level = "species" THEN e.name ELSE isolate_species(e.name)
      d1 == DictSetDefault(d, f, <<>>)
      fam == DictSetDefault(Lookup(d1, f)[1], sp, <<>>)
  IN  CASE e.level = "family" -> d1
        [] e.level = "species" -> DictPut(d1, f, fam)
        [] e.level = "instance" ->
             DictPut(d1, f, DictPut(fam, sp,
               DictPut(Lookup(fam, sp)[1], e.name, e.aavs)))

RECURSIVE BuildDataset(_)
BuildDataset(es) ==
  IF es = <<>> THEN <<>>
  ELSE Entered(BuildDataset(SubSeq(es, 1, Len(es) - 1)), es[Len(es)])

Datasets ==
  {BuildDataset(es) : es \in UNION {[1..n -> Entries] : n \in 0..MaxEntries}}

\* The mappings set_uc_mapping is called with, by their keys: of 0, 1, 2
\* and 4 families.
Mappings ==
  { <<>>,
    <<Alcohols>>,
    <<Alcohols, Ketones>>,
    <<Acetates, Alcohols, Ethers, Ketones>> }

\* ------------------------------------------------------------------- state

VARIABLES
  pc,               \* the step the run is at
  name,             \* the instance name handed to the classifier
  species,          \* isolate_species(name), once computed
  family,           \* get_family(name), once computed
  carbon_rank,      \* get_carbon_ordering(name) in half units, once computed
  items,            \* the list of labels handed to one_hot_mapping
  perm,             \* another order of the same list
  mapping,          \* one_hot_mapping(items), once computed
  mapping_permuted, \* one_hot_mapping of the list in the other order
  rows,             \* the rows csv.reader yields: name and spectrum
  correct_names,    \* the argument of jsonize
  row_index,        \* the row the loop of jsonize is at
  temp_dict,        \* the dict of jsonize, as the sequence of its items
  spectrum_size,    \* <<>> while unassigned, else <<n>>
  exception,        \* the exception jsonize left with, or "none"
  exception_name,   \* the instance name in the exception's message
  json_file,        \* <<>> while no file is written, else <<packaged data>>
  dataset,          \* the nested dict family -> species -> instance -> aavs
  unit_circle,      \* the class attribute unit_circle of each chart class
  last_mapping,     \* the mapping of the latest set_uc_mapping call, if any
  chart,            \* the chart constructed last, with the call that made it
  calls,            \* the number of calls made on the chart classes
  predictions,      \* the aavs of the instances of the species of a Fermi plot
  hotbit,           \* the index of the true family among the axes
  precision,        \* the digits the score is rounded to
  fermi,            \* the Fermi plot constructed, or the exception raised
  proportion,       \* the proportion handed to random_partitioner, <<n, d>>
  count,            \* the count handed to random_partitioner
  partition,        \* what random_partitioner yields, or the exception
  curr_val,         \* NumberedProgBar.curr_val
  maximum,          \* NumberedProgBar.maximum
  default,          \* NumberedProgBar.default
  prog_bar,         \* the value and maximum the ttk.Progressbar is configured to
  style_text,       \* the text the style of the bar is configured to
  raised,           \* the exception the latest call on the bar raised, or "none"
  data,             \* the values of the checks of a CheckPanel
  var,              \* the StringVar of each check
  output,           \* the output list the checks share
  click_raised      \* the exception the latest click or call raised, or "none"

namesVars == <<name, species, family, carbon_rank>>

oneHotVars == <<items, perm, mapping, mapping_permuted>>

jsonizeVars ==
  <<rows, correct_names, row_index, temp_dict, spectrum_size, exception,
    exception_name, json_file>>

radarVars == <<dataset, unit_circle, last_mapping, chart, calls>>

fermiVars == <<predictions, hotbit, precision, fermi>>

partitionVars == <<proportion, count, partition>>

progVars == <<curr_val, maximum, default, prog_bar, style_text, raised>>

checkVars == <<data, var, output, click_raised>>

tkVars == <<progVars, checkVars>>

restVars == <<radarVars, fermiVars, partitionVars, tkVars>>

vars == <<pc, namesVars, oneHotVars, jsonizeVars, restVars>>

\* The variables of a part of the program that a run does not exercise.
IdleNames == name = <<>> /\ species = <<>> /\ family = <<>> /\ carbon_rank = 0

IdleOneHot ==
  items = <<>> /\ perm = <<>> /\ mapping = <<>> /\ mapping_permuted = <<>>

IdleJsonize ==
  /\ rows = <<>> /\ correct_names = FALSE /\ row_index = 1
  /\ temp_dict = <<>> /\ spectrum_size = <<>>
  /\ exception = "none" /\ exception_name = <<>> /\ json_file = <<>>

\* The classes set_uc_mapping can be called on.
Classes == {"Base_RC", "Instance_RC", "Species_RC", "Family_RC", "Macro_RC"}

IdleRadar ==
  /\ dataset = <<>> /\ unit_circle = [cls \in Classes |-> None]
  /\ last_mapping = None /\ chart = None /\ calls = 0

IdleFermi == predictions = <<>> /\ hotbit = 0 /\ precision = 0 /\ fermi = None

IdlePartition == proportion = <<0, 1>> /\ count = 0 /\ partition = None

IdleProg ==
  /\ curr_val = 0 /\ maximum = 0 /\ default = 0
  /\ prog_bar = None /\ style_text = <<>> /\ raised = "none"

IdleCheck == data = <<>> /\ var = <<>> /\ output = <<>> /\ click_raised = "none"

IdleTk == IdleProg /\ IdleCheck

IdleRest == IdleRadar /\ IdleFermi /\ IdlePartition /\ IdleTk

\* --------------------------------------------------- the naming classifier

InitNames ==
  /\ pc = "named"
  /\ name \in Names
  /\ species = <<>>
  /\ family = <<>>
  /\ carbon_rank = 0
  /\ IdleOneHot
  /\ IdleJsonize
  /\ IdleRest

IsolateSpecies ==
  /\ pc = "named"
  /\ species' = isolate_species(name)
  /\ pc' = "isolated"
  /\ UNCHANGED <<name, family, carbon_rank, oneHotVars, jsonizeVars, restVars>>

GetFamily ==
  /\ pc = "isolated"
  /\ family' = get_family(name)
  /\ pc' = "classified"
  /\ UNCHANGED <<name, species, carbon_rank, oneHotVars, jsonizeVars, restVars>>

GetCarbonOrdering ==
  /\ pc = "classified"
  /\ carbon_rank' = get_carbon_ordering(name)
  /\ pc' = "ranked"
  /\ UNCHANGED <<name, species, family, oneHotVars, jsonizeVars, restVars>>

NextNames == IsolateSpecies \/ GetFamily \/ GetCarbonOrdering

SpecNames == InitNames /\ [][NextNames]_vars

\* ------------------------------------------------------ the one-hot encoder

InitOneHot ==
  /\ pc = "labelled"
  /\ items \in LabelLists
  /\ perm \in Permutations_(Len(items))
  /\ mapping = <<>>
  /\ mapping_permuted = <<>>
  /\ IdleNames
  /\ IdleJsonize
  /\ IdleRest

\* one_hot_mapping(items)
OneHotMapping ==
  /\ pc = "labelled"
  /\ mapping' = one_hot_mapping(items)
  /\ pc' = "mapped"
  /\ UNCHANGED <<items, perm, mapping_permuted, namesVars, jsonizeVars, restVars>>

\* one_hot_mapping of the same items in the order perm
OneHotMappingPermuted ==
  /\ pc = "mapped"
  /\ mapping_permuted' = one_hot_mapping(Permuted(items, perm))
  /\ pc' = "remapped"
  /\ UNCHANGED <<items, perm, mapping, namesVars, jsonizeVars, restVars>>

NextOneHot == OneHotMapping \/ OneHotMappingPermuted

SpecOneHot == InitOneHot /\ [][NextOneHot]_vars

\* ------------------------------------------------------------------ jsonize

InitJsonize ==
  /\ pc = "reading"
  /\ rows \in RowLists
  /\ correct_names \in BOOLEAN
  /\ row_index = 1
  /\ temp_dict = <<>>
  /\ spectrum_size = <<>>
  /\ exception = "none"
  /\ exception_name = <<>>
  /\ json_file = <<>>
  /\ IdleNames
  /\ IdleOneHot
  /\ IdleRest

\* One turn of the loop over the rows: the name is corrected if asked for,
\* the length of the spectrum is checked against spectrum_size (or becomes
\* it), and the spectrum is filed under the name.
ReadRow ==
  /\ pc = "reading"
  /\ row_index <= Len(rows)
  /\ LET row == rows[row_index]
         name_ == IF correct_names THEN corrected_name(row.name) ELSE row.name
     IN  IF spectrum_mismatch(row.spectrum, spectrum_size)
         THEN /\ pc' = "raised"
              /\ exception' = "ValueError"
              /\ exception_name' = name_
              /\ UNCHANGED <<row_index, temp_dict, spectrum_size>>
         ELSE /\ spectrum_size' =
                   IF spectrum_size = <<>>
                   THEN <<first_spectrum_size(row.spectrum)>>
                   ELSE spectrum_size
              /\ temp_dict' = dict_set(temp_dict, name_, row.spectrum)
              /\ row_index' = row_index + 1
              /\ UNCHANGED <<pc, exception, exception_name>>
  /\ UNCHANGED <<rows, correct_names, json_file, namesVars, oneHotVars, restVars>>

\* After the loop: the summary is computed and packaged_data is built, which
\* reads spectrum_size (UnboundLocalError, a NameError, while it is
\* unassigned); then the file is created and the data dumped into it.
Package ==
  /\ pc = "reading"
  /\ row_index > Len(rows)
  /\ IF spectrum_size = <<>>
     THEN /\ pc' = "raised"
          /\ exception' = "UnboundLocalError"
          /\ UNCHANGED json_file
     ELSE /\ pc' = "written"
          /\ json_file' = <<packaged_data(temp_dict, spectrum_size)>>
          /\ UNCHANGED exception
  /\ UNCHANGED <<rows, correct_names, row_index, temp_dict, spectrum_size,
                 exception_name, namesVars, oneHotVars, restVars>>

NextJsonize == ReadRow \/ Package

SpecJsonize == InitJsonize /\ [][NextJsonize]_vars

\* ------------------------------------------------------------- radar charts

\* cls.set_uc_mapping(mapping): the unit circle becomes an attribute of the
\* class the method is called on.
SetUcMapping(cls, mapping_) ==
  /\ unit_circle' =
       [unit_circle EXCEPT ![cls] = <<Mapped_Unit_Circle(mapping_)>>]
  /\ last_mapping' = <<mapping_>>
  /\ calls' = calls + 1
  /\ pc' = "mapped"
  /\ UNCHANGED <<dataset, chart, namesVars, oneHotVars, jsonizeVars,
                 fermiVars, partitionVars, tkVars>>

\* A chart has been constructed, or its construction has raised.
Constructed(kind_, arg_, result_) ==
  /\ chart' = <<[kind |-> kind_, arg |-> arg_, result |-> result_]>>
  /\ calls' = calls + 1
  /\ pc' = "constructed"
  /\ UNCHANGED <<dataset, unit_circle, last_mapping, namesVars, oneHotVars,
                 jsonizeVars, fermiVars, partitionVars, tkVars>>

\* Instance_RC(dataset, inst_name)
InstanceRC ==
  \E inst_name \in RadarInstances :
    Constructed("Instance_RC", inst_name,
                Instance_RC(unit_circle["Base_RC"], dataset, inst_name))

\* Species_RC(dataset, species)
SpeciesRC ==
  \E species_ \in RadarSpecies :
    Constructed("Species_RC", species_,
                Species_RC(unit_circle["Base_RC"], dataset, species_))

\* Family_RC(dataset, family)
FamilyRC ==
  \E family_ \in RadarFamilies :
    Constructed("Family_RC", family_,
                Family_RC(unit_circle["Base_RC"], dataset, family_))

\* Macro_RC(dataset)
MacroRC ==
  Constructed("Macro_RC", <<>>, Macro_RC(unit_circle["Base_RC"], dataset))

\* Charts over every dataset: the mapping is set on Base_RC, or not at all,
\* and one chart is constructed.
InitRadar ==
  /\ pc = "idle"
  /\ dataset \in Datasets
  /\ unit_circle = [cls \in Classes |-> None]
  /\ last_mapping = None
  /\ chart = None
  /\ calls = 0
  /\ IdleNames /\ IdleOneHot /\ IdleJsonize /\ IdleFermi /\ IdlePartition
  /\ IdleTk

SetBaseMapping ==
  /\ pc = "idle"
  /\ \E mapping_ \in Mappings : SetUcMapping("Base_RC", mapping_)

ConstructOnce ==
  /\ pc \in {"idle", "mapped"}
  /\ (InstanceRC \/ SpeciesRC \/ FamilyRC \/ MacroRC)

NextRadar == SetBaseMapping \/ ConstructOnce

SpecRadar == InitRadar /\ [][NextRadar]_vars

\* The dataset of the runs in which mappings are set over and over.
UcDataset ==
  BuildDataset(
    << [level |-> "instance", aavs |-> <<1, 0>>,
        name |-> <<"E", "t", "h", "a", "n", "o", "l", "-", "1">>],
       [level |-> "instance", aavs |-> <<0, 2>>,
        name |-> <<"E", "t", "h", "a", "n", "o", "l", "-", "2">>],
       [level |-> "instance", aavs |-> <<1, 0>>,
        name |-> <<"A", "c", "e", "t", "o", "n", "e", "-", "1">>] >>)

\* Any sequence of set_uc_mapping calls, on any class, and constructions.
InitUcMapping ==
  /\ pc = "idle"
  /\ dataset = UcDataset
  /\ unit_circle = [cls \in Classes |-> None]
  /\ last_mapping = None
  /\ chart = None
  /\ calls = 0
  /\ IdleNames /\ IdleOneHot /\ IdleJsonize /\ IdleFermi /\ IdlePartition
  /\ IdleTk

SetAnyMapping ==
  /\ calls < MaxCalls
  /\ \E cls \in Classes, mapping_ \in Mappings : SetUcMapping(cls, mapping_)

Construct ==
  /\ calls < MaxCalls
  /\ (InstanceRC \/ SpeciesRC \/ FamilyRC \/ MacroRC)

NextUcMapping == SetAnyMapping \/ Construct

SpecUcMapping == InitUcMapping /\ [][NextUcMapping]_vars

\* ================================================================ Fermi plot

\* The longest list of entries a dataset of predictions is built from.
MaxPredictions == 3

\* max(pred) of a non-empty sequence of numbers
max(pred) == CHOOSE x \in Range(pred) : \A y \in Range(pred) : y <= x

\* d.values() of a dict as the sequence of its items
DictValues(d) == [i \in 1..Len(d) |-> d[i].value]

\* seq[i] with the 0-based index i of the program, i >= 0
At(seq, i) == seq[i + 1]

\* targets.sort(reverse=True)
RECURSIVE sort_reverse(_)
sort_reverse(list) ==
  IF list = <<>> THEN <<>>
  ELSE LET at == Min({i \in 1..Len(list) : list[i] = max(list)})
       IN  <<list[at]>> \o
           sort_reverse(SubSeq(list, 1, at - 1) \o SubSeq(list, at + 1, Len(list)))

\* normalized(iterable): min-max scaling, or the data as they are when all
\* of them are equal (ZeroDivisionError caught).
normalized(iterable) ==
  LET lo == Min(Range(iterable))
      hi == max(iterable)
  IN  IF hi = lo THEN [i \in 1..Len(iterable) |-> Rat(iterable[i], 1)]
      ELSE [i \in 1..Len(iterable) |-> Rat(iterable[i] - lo, hi - lo)]

\* round(x, ndigits) of a ratio x >= 0: to the nearest multiple of
\* 10^-ndigits, a tie to the even one. The ratios n_correct/n_total that tie
\* are 1/2, 1/4 and 3/4, which the program's floats hold exactly.
round(x, ndigits) ==
  LET scale == 10 ^ ndigits
      q == (x[1] * scale) \div x[2]
      r == (x[1] * scale) % x[2]
      up == 2 * r > x[2] \/ (2 * r = x[2] /\ q % 2 = 1)
  IN  Rat(IF up THEN q + 1 ELSE q, scale)

\* str(n) of a natural number
RECURSIVE str(_)
str(n) ==
  LET digit == <<"0", "1", "2", "3", "4", "5", "6", "7", "8", "9">>[(n % 10) + 1]
  IN  IF n < 10 THEN <<digit>> ELSE str(n \div 10) \o <<digit>>

\* Mutant of n_correct: a prediction counts when its first maximal axis is
\* the hot one.
RECURSIVE n_correct_first_max(_, _)
n_correct_first_max(predictions_, hotbit_) ==
  IF predictions_ = <<>> THEN 0
  ELSE LET pred == Head(predictions_)
           first == Min({i \in 1..Len(pred) : pred[i] = max(pred)})
       IN  (IF first = hotbit_ + 1 THEN 1 ELSE 0)
             + n_correct_first_max(Tail(predictions_), hotbit_)

\* sum(max(pred) == pred[hotbit] for pred in predictions)
RECURSIVE n_correct(_, _)
n_correct(predictions_, hotbit_) ==
  IF predictions_ = <<>> THEN 0
  ELSE (IF max(Head(predictions_)) = At(Head(predictions_), hotbit_) THEN 1 ELSE 0)
         + n_correct(Tail(predictions_), hotbit_)

\* dataset[get_family(species)][species].values(), or None where the lookup
\* raises KeyError
SpeciesPredictions(dataset_, species_) ==
  LET fam == Lookup(dataset_, get_family(species_))
      entry == IF fam = None THEN None ELSE Lookup(fam[1], species_)
  IN  IF entry = None THEN None ELSE <<DictValues(entry[1])>>

\* Fermi_Plot(dataset, species, hotbit, precision): the plot with its score,
\* its line and its title, or the exception its construction raises.
Fermi_Plot(dataset_, species_, hotbit_, precision_) ==
  LET found == SpeciesPredictions(dataset_, species_)
  IN  IF found = None THEN Raised("KeyError")
      ELSE LET predictions_ == found[1]
               n_total == Len(predictions_)
               correct == n_correct(predictions_, hotbit_)
               targets == sort_reverse([i \in 1..n_total |->
                                          At(predictions_[i], hotbit_)])
           IN  IF \E i \in 1..n_total : hotbit_ >= Len(predictions_[i])
               THEN Raised("IndexError")
               ELSE IF n_total = 0 THEN Raised("ZeroDivisionError")
               ELSE [exception |-> "none",
                     score |-> round(Rat(correct, n_total), precision_),
                     lines |-> <<normalized(targets)>>,
                     title |-> species_ \o <<",", " ">> \o str(correct) \o <<"/">>
                                 \o str(n_total)
                                 \o <<" ", "c", "o", "r", "r", "e", "c", "t">>]

\* The instances of the species plotted, a species without instances, and
\* the predictions (aavs) of an instance over two axes.
FermiInstances ==
  { <<"E", "t", "h", "a", "n", "o", "l", "-", "1">>,
    <<"E", "t", "h", "a", "n", "o", "l", "-", "2">>,
    <<"E", "t", "h", "a", "n", "o", "l", "-", "3">> }

FermiSpecies ==
  { <<"E", "t", "h", "a", "n", "o", "l">>,
    <<"M", "e", "t", "h", "a", "n", "o", "l">>,
    <<"A", "c", "e", "t", "o", "n", "e">> }

FermiAavs == [1..2 -> {0, 1}]

FermiEntries ==
  [level : {"instance"}, name : FermiInstances, aavs : FermiAavs]
    \cup [level : {"species"}, name : {<<"M", "e", "t", "h", "a", "n", "o", "l">>},
          aavs : {<<>>}]

FermiDatasets ==
  {BuildDataset(es) : es \in UNION {[1..n -> FermiEntries] : n \in 0..MaxPredictions}}

\* The hot bits, the last of them past the axes, and the precisions, the
\* last of them the default.
Hotbits == 0..2

Precisions == {0, 1, 4}

InitFermi ==
  /\ pc = "idle"
  /\ dataset \in FermiDatasets
  /\ unit_circle = [cls \in Classes |-> None]
  /\ last_mapping = None
  /\ chart = None
  /\ calls = 0
  /\ IdleNames /\ IdleOneHot /\ IdleJsonize /\ IdleFermi /\ IdlePartition
  /\ IdleTk

\* Fermi_Plot(dataset, species, hotbit, precision)
FermiPlot ==
  /\ pc = "idle"
  /\ \E species_ \in FermiSpecies, hotbit_ \in Hotbits, precision_ \in Precisions :
       LET found == SpeciesPredictions(dataset, species_)
       IN  /\ predictions' = IF found = None THEN <<>> ELSE found[1]
           /\ hotbit' = hotbit_
           /\ precision' = precision_
           /\ fermi' = <<[species |-> species_,
                          result |-> Fermi_Plot(dataset, species_, hotbit_, precision_)]>>
  /\ pc' = "plotted"
  /\ UNCHANGED <<radarVars, namesVars, oneHotVars, jsonizeVars, partitionVars,
                 tkVars>>

NextFermi == FermiPlot

SpecFermi == InitFermi /\ [][NextFermi]_vars

\* ================================================================ random_partitioner

\* The largest count random_partitioner is called with.
MaxCount == 4

\* Mutant of Membership: i <= proportion*count
Membership_inclusive(proportion_, count_) ==
  [k \in 1..count_ |-> (k - 1) * proportion_[2] <= proportion_[1] * count_]

\* [i < proportion*count for i in range(count)], the proportion a ratio
\* with a positive denominator; empty for a negative count
Membership(proportion_, count_) ==
  [k \in 1..count_ |-> (k - 1) * proportion_[2] < proportion_[1] * count_]

\* random_partitioner(proportion, count), f the permutation random.sample
\* draws: ValueError for a proportion outside [0, 1], and from random.sample
\* for a negative count; else the iterator over the shuffled list, nothing
\* yielded yet.
random_partitioner(proportion_, count_, f) ==
  IF ~(~RatLess(proportion_, <<0, 1>>) /\ ~RatLess(<<1, 1>>, proportion_))
  THEN Raised("ValueError")
  ELSE IF count_ < 0 THEN Raised("ValueError")
  ELSE [exception |-> "none",
        iterator |-> Permuted(Membership(proportion_, count_), f),
        yielded |-> <<>>]

\* The proportions, two of them outside [0, 1], and the counts, one of them
\* negative.
Proportions ==
  {<<-1, 2>>, <<0, 1>>, <<1, 4>>, <<1, 3>>, <<1, 2>>, <<2, 3>>, <<1, 1>>, <<3, 2>>}

Counts == -1..MaxCount

InitPartition == pc = "idle" /\ IdleNames /\ IdleOneHot /\ IdleJsonize /\ IdleRest

\* random_partitioner(proportion, count)
RandomPartitioner ==
  /\ pc = "idle"
  /\ \E proportion_ \in Proportions, count_ \in Counts :
       \E f \in Permutations_(IF count_ < 0 THEN 0 ELSE count_) :
         /\ proportion' = proportion_
         /\ count' = count_
         /\ partition' = <<random_partitioner(proportion_, count_, f)>>
  /\ pc' = "partitioned"
  /\ UNCHANGED <<radarVars, fermiVars, namesVars, oneHotVars, jsonizeVars,
                 tkVars>>

\* next(<iter>) on the iterator returned, while it has something to yield
NextBool ==
  /\ pc = "partitioned"
  /\ partition[1].exception = "none"
  /\ partition[1].iterator # <<>>
  /\ partition' = <<[partition[1] EXCEPT
                       !.yielded = Append(@, Head(partition[1].iterator)),
                       !.iterator = Tail(@)]>>
  /\ UNCHANGED <<pc, proportion, count, radarVars, fermiVars, namesVars,
                 oneHotVars, jsonizeVars, tkVars>>

NextPartition == RandomPartitioner \/ NextBool

SpecPartition == InitPartition /\ [][NextPartition]_vars

\* ================================================================ NumberedProgBar

\* The largest value a bar is constructed with or set to.
MaxValue == 4

Values == 0..MaxValue

\* f'{self.curr_val}/{self.maximum}'
ProgressText(curr_val_, maximum_) == str(curr_val_) \o <<"/">> \o str(maximum_)

\* set_progress(val), with self.maximum and the maximum of the widget as they
\* are when it is called: ValueError above the maximum, else the value is
\* taken, the widget and the text of the style configured.
set_progress(val, maximum_, bar_maximum) ==
  IF val > maximum_
  THEN /\ raised' = "ValueError"
       /\ curr_val' = curr_val
       /\ prog_bar' = [prog_bar EXCEPT !.maximum = bar_maximum]
       /\ style_text' = style_text
  ELSE /\ raised' = "none"
       /\ curr_val' = val
       /\ prog_bar' = [value |-> val, maximum |-> bar_maximum]
       /\ style_text' = ProgressText(val, maximum_)

\* NumberedProgBar(frame, maximum, default): the constructor ends with
\* reset(), which raises for a default above the maximum.
InitProgBar ==
  /\ pc = "bar"
  /\ maximum \in Values
  /\ default \in {d \in Values : d <= maximum}
  /\ curr_val = default
  /\ prog_bar = [value |-> default, maximum |-> maximum]
  /\ style_text = ProgressText(default, maximum)
  /\ raised = "none"
  /\ IdleNames /\ IdleOneHot /\ IdleJsonize
  /\ IdleRadar /\ IdleFermi /\ IdlePartition /\ IdleCheck

BarFrame ==
  UNCHANGED <<pc, default, namesVars, oneHotVars, jsonizeVars, radarVars,
              fermiVars, partitionVars, checkVars>>

\* set_progress(val)
SetProgress ==
  /\ pc = "bar"
  /\ \E val \in Values : set_progress(val, maximum, prog_bar.maximum)
  /\ maximum' = maximum
  /\ BarFrame

\* set_max(new_max): the maximum and the widget are set first, then
\* set_progress(self.curr_val) checks against the new maximum.
SetMax ==
  /\ pc = "bar"
  /\ \E new_max \in Values :
       /\ maximum' = new_max
       /\ set_progress(curr_val, new_max, new_max)
  /\ BarFrame

\* increment()
Increment ==
  /\ pc = "bar"
  /\ IF curr_val = maximum
     THEN raised' = "none" /\ UNCHANGED <<curr_val, prog_bar, style_text>>
     ELSE set_progress(curr_val + 1, maximum, prog_bar.maximum)
  /\ maximum' = maximum
  /\ BarFrame

\* reset()
Reset ==
  /\ pc = "bar"
  /\ set_progress(default, maximum, prog_bar.maximum)
  /\ maximum' = maximum
  /\ BarFrame

NextProgBar == SetProgress \/ SetMax \/ Increment \/ Reset

SpecProgBar == InitProgBar /\ [][NextProgBar]_vars

\* ================================================================ CheckPanel

\* The most checks a panel has.
MaxChecks == 3

\* The value a Checkbutton gives its variable when it is unchecked:
\* offvalue=None leaves the option to Tk, whose default is "0".
OffValue == "0"

\* list.remove(x): without the first x, or ValueError when there is none
Remove(list, x) ==
  LET at == {i \in 1..Len(list) : list[i] = x}
  IN  IF at = {} THEN Raised("ValueError")
      ELSE [exception |-> "none",
            list |-> SubSeq(list, 1, Min(at) - 1)
                       \o SubSeq(list, Min(at) + 1, Len(list))]

\* cb.invoke() of check i, a click on it: Tk flips the variable between
\* onvalue and offvalue and runs the command, edit_output, which appends the
\* value to the output or removes it; an exception of the command is
\* reported by Tk and the variable stays flipped.
invoke(panel, i) ==
  LET flipped == IF panel.var[i] = panel.data[i] THEN OffValue ELSE panel.data[i]
      var_ == [panel.var EXCEPT ![i] = flipped]
      removed == Remove(panel.output, panel.data[i])
  IN  IF flipped = panel.data[i]
      THEN [panel EXCEPT !.var = var_, !.output = Append(@, panel.data[i])]
      ELSE IF removed.exception # "none"
      THEN [panel EXCEPT !.var = var_, !.raised = removed.exception]
      ELSE [panel EXCEPT !.var = var_, !.output = removed.list]

\* toggle_all(): option.cb.invoke() for the first n checks of the panel, in
\* their order
RECURSIVE toggle_all(_, _)
toggle_all(panel, n) ==
  IF n = 0 THEN panel ELSE invoke(toggle_all(panel, n - 1), n)

\* The values of the checks: the panels of up to MaxChecks different values.
CheckValues == {"A", "B", "C"}

Panels ==
  {d \in UNION {[1..n -> CheckValues] : n \in 1..MaxChecks} :
     \A i, j \in 1..Len(d) : d[i] = d[j] => i = j}

\* CheckPanel(frame, data, output) with an empty output list: every check is
\* deselected.
InitCheckPanel ==
  /\ pc = "panel"
  /\ data \in Panels
  /\ var = [i \in 1..Len(data) |-> OffValue]
  /\ output = <<>>
  /\ click_raised = "none"
  /\ IdleNames /\ IdleOneHot /\ IdleJsonize
  /\ IdleRadar /\ IdleFermi /\ IdlePartition /\ IdleProg

PanelNow == [data |-> data, var |-> var, output |-> output, raised |-> "none"]

PanelBecomes(panel) ==
  /\ var' = panel.var
  /\ output' = panel.output
  /\ click_raised' = panel.raised
  /\ UNCHANGED <<pc, data, namesVars, oneHotVars, jsonizeVars, radarVars,
                 fermiVars, partitionVars, progVars>>

\* A click on one check.
Click ==
  /\ pc = "panel"
  /\ \E i \in 1..Len(data) : PanelBecomes(invoke(PanelNow, i))

\* SelectionWindow.toggle_all()
ToggleAll ==
  /\ pc = "panel"
  /\ PanelBecomes(toggle_all(PanelNow, Len(data)))

\* CheckPanel.wipe_output(): self.output.clear()
WipeOutput ==
  /\ pc = "panel"
  /\ PanelBecomes([PanelNow EXCEPT !.output = <<>>])

NextCheckPanel == Click \/ ToggleAll \/ WipeOutput

SpecCheckPanel == InitCheckPanel /\ [][NextCheckPanel]_vars

\* ================================================================ claims

\* What the claims say is stated with matchers of its own, so that the
\* patterns of the model are compared against them, not against themselves.

Separators == {" ", "-"}

\* The length of the longest run of characters of S that ends s.
TrailingRun(s, S) ==
  CHOOSE k \in 0..Len(s) :
    /\ \A j \in (Len(s) - k + 1)..Len(s) : s[j] \in S
    /\ k = Len(s) \/ s[Len(s) - k] \notin S

\* s ends with t, letter case ignored.
EndsWithFolded(s, t) ==
  /\ Len(t) <= Len(s)
  /\ \A k \in 1..Len(t) : LowerOf[s[Len(s) - Len(t) + k]] = LowerOf[t[k]]

\* t occurs in s from position i on, letter case ignored.
OccursAtFolded(s, t, i) ==
  /\ i >= 1
  /\ i + Len(t) - 1 <= Len(s)
  /\ \A k \in 1..Len(t) : LowerOf[s[i + k - 1]] = LowerOf[t[k]]

ContainsFolded(s, t) == \E i \in 1..Len(s) : OccursAtFolded(s, t, i)

Stem(k) == iupac_numbering[k].affix

StemCounts == 1..Len(iupac_numbering)

\* ---- C1

\* The species C1 describes: the trailing digits go, with one separator
\* before them if there is one; a name that does not end in a digit stays.
C1_ClaimedSpecies(n) ==
  LET d == TrailingRun(n, Digits)
      p == Len(n) - d
  IN  IF d = 0 THEN n
      ELSE IF p >= 1 /\ n[p] \in Separators THEN SubSeq(n, 1, p - 1)
      ELSE SubSeq(n, 1, p)

\* C1 as stated: isolate_species strips a trailing run of digits together
\* with an optional preceding space or hyphen (the separator may be absent),
\* and returns every name that does not end in digits unchanged.
C1_Original == pc # "named" => species = C1_ClaimedSpecies(name)

\* The species the code computes, read from the right: behind any trailing
\* whitespace, a run of digits with a separator in front of it.
C1_AmendedSpecies(n) ==
  LET t == SubSeq(n, 1, Len(n) - TrailingRun(n, {" "}))
      d == TrailingRun(t, Digits)
      p == Len(t) - d
  IN  IF d >= 1 /\ p >= 1 /\ t[p] \in Separators THEN SubSeq(t, 1, p - 1) ELSE n

\* C1 amended: isolate_species strips the trailing run of digits only when a
\* space or hyphen stands directly before it, together with that one
\* separator and any whitespace after the digits; every other name, among
\* them a name whose digits follow a letter directly, is returned unchanged.
C1_Amended == pc # "named" => species = C1_AmendedSpecies(name)

\* A name that ends in digits with no separator before them has been
\* through isolate_species and came back whole.
C1_Witness ==
  /\ pc = "isolated"
  /\ name = <<"E", "t", "h", "a", "n", "o", "l", "1">>
  /\ species = name

\* ---- C2

\* The table entries whose suffix ends s, letter case ignored.
C2_Matching(s) ==
  {i \in 1..Len(iupac_suffices) : EndsWithFolded(s, iupac_suffices[i].suffix)}

\* C2: get_family returns the family of the first table entry whose suffix
\* ends the species, case-insensitively, and 'Unknown' exactly when no
\* entry's suffix ends the species.
C2_FirstMatchWins ==
  pc \in {"classified", "ranked"} =>
    LET m == C2_Matching(species)
    IN  /\ (family = Unknown) <=> (m = {})
        /\ m # {} => family = iupac_suffices[Min(m)].family

\* A name whose species holds one suffix inside and another at its end has
\* been classified by the one at its end.
C2_Witness ==
  /\ pc = "classified"
  /\ name = <<"P", "i", "n", "a", "c", "o", "l", "o", "n", "e">>
  /\ family = Ketones

\* ---- C3

\* 'iso' or 'sec-' stands in s directly before stem k, or 'iso' and a hyphen
\* do.
C3_PrefixesStem(s, k) ==
  \E i \in 1..Len(s) :
    \/ OccursAtFolded(s, <<"i", "s", "o">> \o Stem(k), i)
    \/ OccursAtFolded(s, <<"i", "s", "o", "-">> \o Stem(k), i)
    \/ OccursAtFolded(s, <<"s", "e", "c", "-">> \o Stem(k), i)

\* C3 as stated: a name in which 'iso' or 'sec-' prefixes a stem, with or
\* without a hyphen after 'iso', ranks at the stem's count plus 0.5.
C3_Original ==
  pc = "ranked" =>
    \A k \in StemCounts : C3_PrefixesStem(name, k) => carbon_rank = 2 * k + 1

\* 'iso' or 'sec-' stands in s directly before an occurrence of the pattern
\* of entry k, nothing in between.
C3_DirectlyPrefixes(s, k) ==
  \E i \in 1..Len(s) :
    \E pre \in {<<"i", "s", "o">>, <<"s", "e", "c", "-">>} :
      /\ OccursAtFolded(s, pre \o Stem(k), i)
      /\ ~OccursAtFolded(s, pre \o Stem(k) \o iupac_numbering[k].ahead, i)
         \/ iupac_numbering[k].ahead = <<>>

\* C3 amended: the 0.5 is added exactly when 'iso' or 'sec-' stands directly
\* before an occurrence of the stem the name is ranked by, no character in
\* between: 'Isobutanol' ranks 4.5, and 'Iso-Butanol', where a hyphen
\* follows 'iso', ranks 4.
C3_Amended ==
  pc = "ranked" /\ carbon_rank # 2 * Sentinel =>
    LET k == carbon_rank \div 2
    IN  /\ k \in StemCounts
        /\ (carbon_rank % 2 = 1) <=> C3_DirectlyPrefixes(name, k)

\* 'Iso-Butanol' has been ranked, and ranks 4.
C3_Witness ==
  /\ pc = "ranked"
  /\ name = <<"I", "s", "o", "-", "B", "u", "t", "a", "n", "o", "l">>
  /\ carbon_rank = 8

\* ---- C4

\* C4 as stated: the sentinel is returned exactly when the name contains
\* none of the ten stems.
C4_Original ==
  pc = "ranked" =>
    ((carbon_rank = 2 * Sentinel) <=>
       (\A k \in StemCounts : ~ContainsFolded(name, Stem(k))))

\* The pattern of entry k occurs in s: its stem, for 'eth' not followed by
\* 'er' and for 'non' not followed by 'e'.
C4_PatternOccurs(s, k) ==
  \E i \in 1..Len(s) :
    /\ OccursAtFolded(s, Stem(k), i)
    /\ CASE k = 2 -> ~OccursAtFolded(s, <<"e", "r">>, i + 3)
         [] k = 9 -> ~OccursAtFolded(s, <<"e">>, i + 3)
         [] OTHER -> TRUE

\* C4 amended: get_carbon_ordering returns the count of the first table
\* entry whose pattern occurs in the name (plus the optional 0.5), where
\* 'eth' followed by 'er' and 'non' followed by 'e' are no occurrences, and
\* returns 100 exactly when no pattern occurs; the result is always one of
\* 1, 1.5, ..., 10, 10.5, 100.
C4_Amended ==
  pc = "ranked" =>
    LET m == {k \in StemCounts : C4_PatternOccurs(name, k)}
    IN  /\ (carbon_rank = 2 * Sentinel) <=> (m = {})
        /\ m # {} => carbon_rank \in {2 * Min(m), 2 * Min(m) + 1}
        /\ carbon_rank \in (2..21) \cup {2 * Sentinel}

\* 'Ether' contains the stem 'eth' and has been ranked at the sentinel.
C4_Witness ==
  /\ pc = "ranked"
  /\ name = <<"E", "t", "h", "e", "r">>
  /\ carbon_rank = 2 * Sentinel

\* ---- C5

Families == {iupac_suffices[i].family : i \in 1..Len(iupac_suffices)} \cup {Unknown}

\* No suffix of the table ends the name's species and no stem occurs in it.
C5_Unrecognized(n) ==
  /\ C2_Matching(C1_AmendedSpecies(n)) = {}
  /\ \A k \in StemCounts : ~ContainsFolded(n, Stem(k))

\* C5: the three functions are total: each can be applied to every name,
\* the empty one included, and returns a string, a family label and a
\* number; an unrecognized name yields 'Unknown' and the rank 100.
C5_Total ==
  /\ pc = "named" => ENABLED IsolateSpecies
  /\ pc = "isolated" => ENABLED GetFamily /\ species \in Seq(Chars)
  /\ pc = "classified" => ENABLED GetCarbonOrdering /\ family \in Families
  /\ pc = "ranked" =>
       /\ carbon_rank \in Nat
       /\ C5_Unrecognized(name) => family = Unknown /\ carbon_rank = 2 * Sentinel

\* The empty name has been through all three functions.
C5_Witness ==
  /\ pc = "ranked"
  /\ name = <<>>
  /\ family = Unknown
  /\ carbon_rank = 2 * Sentinel

\* ---- C6

\* The place of v among the strings of S in sorted order.
SortedIndex(v, S) == 1 + Cardinality({w \in S : StrLess(w, v)})

\* The places of a vector that hold 1.
Ones(vector) == {i \in 1..Len(vector) : vector[i] = 1}

\* C6 as stated: whatever the order of the labels and whether or not labels
\* repeat, each label maps to a vector as long as the number of distinct
\* labels, with exactly one 1, at the label's index in the sorted list of
\* distinct labels.
C6_Original ==
  pc # "labelled" =>
    \A v \in Range(items) :
      /\ v \in DOMAIN mapping
      /\ Len(mapping[v]) = Cardinality(Range(items))
      /\ Ones(mapping[v]) = {SortedIndex(v, Range(items))}

\* The list is sorted and holds no label twice.
StrictlySorted(list) ==
  \A i, j \in 1..Len(list) : i < j => StrLess(list[i], list[j])

\* C6 amended: each label maps to a vector as long as the list handed over
\* (repeats counted), with a 1 at every position where the label stands in
\* that list, in the order given, and 0 elsewhere; so for a list of distinct
\* labels in sorted order (what jsonize hands over) the vector is as long as
\* the number of distinct labels and has exactly one 1, at the label's sorted
\* index.
C6_Amended ==
  pc # "labelled" =>
    /\ DOMAIN mapping = Range(items)
    /\ \A v \in Range(items) :
         /\ Len(mapping[v]) = Len(items)
         /\ \A i \in 1..Len(items) :
              mapping[v][i] = IF items[i] = v THEN 1 ELSE 0
         /\ StrictlySorted(items) =>
              /\ Len(mapping[v]) = Cardinality(Range(items))
              /\ Ones(mapping[v]) = {SortedIndex(v, Range(items))}

\* A list that repeats a label has been mapped, and the label's vector
\* holds more than one 1.
C6_Witness ==
  /\ pc = "mapped"
  /\ Len(items) = 3
  /\ \E v \in Range(items) : Cardinality(Ones(mapping[v])) = 2

\* ---- C7

\* C7 as stated: the mapping of a permuted list is the mapping of the list.
C7_Original == pc = "remapped" => mapping_permuted = mapping

\* C7 amended: permuting the list handed to one_hot_mapping keeps the keys
\* and permutes every vector the same way, so the two mappings are identical
\* exactly when the permuted list is the same list.
C7_Amended ==
  pc = "remapped" =>
    /\ DOMAIN mapping_permuted = DOMAIN mapping
    /\ \A v \in DOMAIN mapping : \A i \in 1..Len(items) :
         mapping_permuted[v][i] = mapping[v][perm[i]]
    /\ (mapping_permuted = mapping) <=> (Permuted(items, perm) = items)

\* Two orders of the same labels have been mapped, to different mappings.
C7_Witness ==
  /\ pc = "remapped"
  /\ mapping_permuted # mapping

\* ---- C8

\* The rows whose spectrum is not as long as the first row's.
Mismatching == {i \in 1..Len(rows) : Len(rows[i].spectrum) # Len(rows[1].spectrum)}

C9_Succeeds ==
  /\ pc # "raised"
  /\ pc = "written" =>
       /\ json_file # <<>>
       /\ json_file[1].spectrum_size = Len(rows[1].spectrum)
       /\ \A i \in 1..Len(json_file[1].chem_data) :
            Len(json_file[1].chem_data[i].spectrum) = Len(rows[1].spectrum)

C10_FamilyVectors ==
  pc = "written" =>
    LET d == json_file[1]
        recs == Range(d.chem_data)
        fams == {r.family : r \in recs}
    IN  /\ StrictlySorted(d.families)
        /\ Range(d.families) = fams
        /\ \A r \in recs :
             /\ Len(r.vector) = Cardinality(fams)
             /\ \A i \in 1..Len(r.vector) : r.vector[i] \in {0, 1}
             /\ \E i \in 1..Len(d.families) :
                  d.families[i] = r.family /\ Ones(r.vector) = {i}
        /\ \A r, s \in recs : (r.family = s.family) <=> (r.vector = s.vector)

\* A dataset of three families has been packaged, the family that sorts
\* first read last.
C10_Witness ==
  /\ pc = "written"
  /\ Len(json_file[1].families) = 3
  /\ json_file[1].chem_data[3].family = json_file[1].families[1]

\* ---- C11

\* C11: the summary of a packaged dataset is the summary of its records:
\* 'species' and 'families' list, sorted and without repeats, the species
\* and the families of the records, and species_count and family_count give
\* for each of them the number of records that carry it.
C11_SummaryRederived ==
  pc = "written" =>
    LET d == json_file[1]
        at == 1..Len(d.chem_data)
        spp == {d.chem_data[i].species : i \in at}
        fams == {d.chem_data[i].family : i \in at}
    IN  /\ StrictlySorted(d.species) /\ Range(d.species) = spp
        /\ StrictlySorted(d.families) /\ Range(d.families) = fams
        /\ DOMAIN d.species_count = spp
        /\ DOMAIN d.family_count = fams
        /\ \A x \in spp :
             d.species_count[x] =
               Cardinality({i \in at : d.chem_data[i].species = x})
        /\ \A f \in fams :
             d.family_count[f] =
               Cardinality({i \in at : d.chem_data[i].family = f})

\* A dataset of three records has been packaged, two of them of one species.
C11_Witness ==
  /\ pc = "written"
  /\ Len(json_file[1].chem_data) = 3
  /\ Len(json_file[1].species) = 2
  /\ \E x \in DOMAIN json_file[1].species_count :
       json_file[1].species_count[x] = 2

\* ---- C12

\* The name C12 describes: if the name less its numeric suffix is a variant
\* of the table, the canonical spelling followed by the rest of the name,
\* else the name as it is.
C12_ClaimedName(n) ==
  LET stem == C1_AmendedSpecies(n)
      hits == {k \in 1..Len(rep_flags) : rep_flags[k].flag = stem}
  IN  IF hits = {} THEN n
      ELSE rep_flags[Min(hits)].replacement \o SubSeq(n, Len(stem) + 1, Len(n))

\* The names the rows read so far are filed under.
C12_Keys == {temp_dict[j].name : j \in 1..Len(temp_dict)}

\* C12: with name correction, jsonize files every row it has read under the
\* name C12 describes: rewritten only if a variant of the table stands at
\* the very start (the name less its numeric suffix is the variant), only
\* that occurrence replaced and the rest of the name kept; every other name
\* unchanged.
C12_RewritesOnlyLeadingVariant ==
  correct_names =>
    C12_Keys = {C12_ClaimedName(rows[i].name) : i \in 1..(row_index - 1)}

\* With name correction a row whose name holds no variant of the table has
\* been filed under a name that is not the row's.
C12_Witness ==
  /\ correct_names
  /\ Len(rows) = 1
  /\ row_index = 2
  /\ rows[1].name = <<"N", "a", "+", "-", "1">>
  /\ temp_dict[1].name = <<"N", "a", "+", "+", "-", "1">>

\* ---- C20

\* The sum of the values of a dict of counts.
RECURSIVE C20_Sum(_)
C20_Sum(counts) ==
  IF DOMAIN counts = {} THEN 0
  ELSE LET x == CHOOSE y \in DOMAIN counts : TRUE
       IN  counts[x] + C20_Sum([y \in DOMAIN counts \ {x} |-> counts[y]])

\* C20: a packaged dataset holds one record per input row, in the order of
\* the rows, and the counts per species and per family each sum to the
\* number of rows, whether or not two rows carry one name or names that
\* name correction makes equal.
C20_OneRecordPerRow ==
  pc = "written" =>
    LET d == json_file[1]
    IN  /\ Len(d.chem_data) = Len(rows)
        /\ \A i \in 1..Len(rows) : d.chem_data[i].spectrum = rows[i].spectrum
        /\ C20_Sum(d.species_count) = Len(rows)
        /\ C20_Sum(d.family_count) = Len(rows)

\* Two rows whose names name correction makes equal have been packaged
\* into one record.
C20_Witness ==
  /\ pc = "written"
  /\ correct_names
  /\ Len(rows) = 2
  /\ rows[1].name # rows[2].name
  /\ Len(json_file[1].chem_data) = 1
  /\ C20_Sum(json_file[1].species_count) = 1

\* ---- C13

\* The instances a dataset holds, each with its family, species and aavs.
Leaves ==
  { [family |-> dataset[f].key,
     species |-> dataset[f].value[sp].key,
     name |-> dataset[f].value[sp].value[i].key,
     aavs |-> dataset[f].value[sp].value[i].value] :
      <<f, sp, i>> \in
        { t \in (1..Len(dataset)) \X (1..MaxEntries) \X (1..MaxEntries) :
            /\ t[2] <= Len(dataset[t[1]].value)
            /\ t[3] <= Len(dataset[t[1]].value[t[2]].value) } }

\* The k-th N-th root of unity (k counted from 0, around the circle as often
\* as need be), for N of 1, 2 and 4: its real and imaginary parts.
QuarterTurns(N, k) == ((k * 4) \div N) % 4

RootRe(N, k) == <<1, 0, -1, 0>>[QuarterTurns(N, k) + 1]

RootIm(N, k) == <<0, 1, 0, -1>>[QuarterTurns(N, k) + 1]

\* The sum of the first m values of a sequence of integers.
RECURSIVE SumFirst(_, _)
SumFirst(values, m) ==
  IF m = 0 THEN 0 ELSE SumFirst(values, m - 1) + values[m]

\* centroid = N times the mean of the first m axial points of aavs
NTimesMeanOfAxialPoints(centroid, N, aavs, m) ==
  /\ m > 0
  /\ RatTimes(centroid.re, m) =
       Rat(N * SumFirst([i \in 1..m |-> aavs[i] * RootRe(N, i - 1)], m), 1)
  /\ RatTimes(centroid.im, m) =
       Rat(N * SumFirst([i \in 1..m |-> aavs[i] * RootIm(N, i - 1)], m), 1)

\* An instance chart has been constructed: the aavs of the instance.
InstanceCharted ==
  /\ pc = "constructed"
  /\ chart[1].kind = "Instance_RC"
  /\ chart[1].result.exception = "none"

ChartedAavs == (CHOOSE l \in Leaves : l.name = chart[1].arg).aavs

AxisCount == unit_circle["Base_RC"][1].N

\* C13 as stated: the centroid of an instance chart is N times the mean of
\* the axial points of all the axial values of the instance, the i-th on the
\* i-th N-th root of unity.
C13_Original ==
  InstanceCharted =>
    NTimesMeanOfAxialPoints(chart[1].result.centroid, AxisCount,
                            ChartedAavs, Len(ChartedAavs))

\* C13 amended: the axial points are those of the first min(len, N) axial
\* values, axial values beyond the N-th are dropped; the centroid is N times
\* the mean of these points, and for an instance of exactly N axial values
\* their plain sum.
C13_Amended ==
  InstanceCharted =>
    LET N == AxisCount
        aavs == ChartedAavs
        m == IF Len(aavs) < N THEN Len(aavs) ELSE N
        c == chart[1].result.centroid
    IN  /\ Len(chart[1].result.points) = m
        /\ NTimesMeanOfAxialPoints(c, N, aavs, m)
        /\ Len(aavs) = N =>
             /\ c.re = Rat(SumFirst([i \in 1..N |-> aavs[i] * RootRe(N, i - 1)], N), 1)
             /\ c.im = Rat(SumFirst([i \in 1..N |-> aavs[i] * RootIm(N, i - 1)], N), 1)

\* An instance of two axial values has been charted on one axis.
C13_Witness ==
  /\ InstanceCharted
  /\ AxisCount = 1
  /\ Len(ChartedAavs) = 2
  /\ ChartedAavs[2] # 0

\* ---- C14

\* The instances filed under a species, in the order of the dataset.
InstancesOf(species_) ==
  LET at == CHOOSE t \in (1..Len(dataset)) \X (1..MaxEntries) :
              /\ t[2] <= Len(dataset[t[1]].value)
              /\ dataset[t[1]].value[t[2]].key = species_
  IN  dataset[at[1]].value[at[2]].value

\* z is the centroid Instance_RC gives aavs: N times the mean of the axial
\* points of its first min(len, N) axial values.
IsInstanceCentroid(z, aavs) ==
  NTimesMeanOfAxialPoints(z, AxisCount, aavs,
    IF Len(aavs) < AxisCount THEN Len(aavs) ELSE AxisCount)

\* z is the mean of the points, each with the same weight: as many times z
\* as there are points is their sum.
IsMeanOf(z, points_) ==
  /\ points_ # <<>>
  /\ ComplexTimes(z, Len(points_)) = ComplexSum(points_)

SpeciesCharted ==
  /\ pc = "constructed"
  /\ chart[1].kind = "Species_RC"
  /\ chart[1].result.exception = "none"

\* C14: the points of a species chart are the centroids of the instances of
\* the species, each the N-scaled centroid Instance_RC computes, and its
\* centroid is their mean, every instance with the same weight, with no
\* further scaling by N.
C14_SpeciesCentroidIsMean ==
  SpeciesCharted =>
    LET instances == InstancesOf(chart[1].arg)
        points_ == chart[1].result.points
    IN  /\ Len(points_) = Len(instances)
        /\ \A i \in 1..Len(instances) :
             IsInstanceCentroid(points_[i], instances[i].value)
        /\ IsMeanOf(chart[1].result.centroid, points_)

\* A species of two instances with different centroids has been charted on
\* four axes.
C14_Witness ==
  /\ SpeciesCharted
  /\ AxisCount = 4
  /\ Len(chart[1].result.points) = 2
  /\ chart[1].result.points[1] # chart[1].result.points[2]

\* ---- C15

\* The mean of a sequence of points, each with the same weight.
Mean(points_) == ComplexOver(ComplexSum(points_), Len(points_))

\* The centroid of an instance of the given aavs: N times the mean of the
\* axial points of its first min(len, N) axial values.
InstanceCentroid(aavs) ==
  LET N == AxisCount
      m == IF Len(aavs) < N THEN Len(aavs) ELSE N
  IN  [re |-> Rat(N * SumFirst([i \in 1..m |-> aavs[i] * RootRe(N, i - 1)], m), m),
       im |-> Rat(N * SumFirst([i \in 1..m |-> aavs[i] * RootIm(N, i - 1)], m), m)]

\* The instance centroids of a species, of a family (all its species taken
\* together) and of the dataset, from the items of the dataset.
SpeciesLeaves(instances) ==
  [i \in 1..Len(instances) |-> InstanceCentroid(instances[i].value)]

FamilyLeaves(species_items) ==
  Flatten([k \in 1..Len(species_items) |-> SpeciesLeaves(species_items[k].value)])

DatasetLeaves ==
  Flatten([f \in 1..Len(dataset) |-> FamilyLeaves(dataset[f].value)])

\* The centroid of a family when every species weighs the same: the mean of
\* the means of its species.
UnweightedFamilyCentroid(species_items) ==
  Mean([k \in 1..Len(species_items) |-> Mean(SpeciesLeaves(species_items[k].value))])

FamilyCharted ==
  /\ pc = "constructed"
  /\ chart[1].kind = "Family_RC"
  /\ chart[1].result.exception = "none"

MacroCharted ==
  /\ pc = "constructed"
  /\ chart[1].kind = "Macro_RC"
  /\ chart[1].result.exception = "none"

\* The species of the family charted.
ChartedFamily ==
  dataset[CHOOSE f \in 1..Len(dataset) : dataset[f].key = chart[1].arg].value

\* The groups that are averaged are not all of one size.
SpeciesSizesDiffer(species_items) ==
  \E j, k \in 1..Len(species_items) :
    Len(species_items[j].value) # Len(species_items[k].value)

FamilySizesDiffer ==
  \/ \E f, g \in 1..Len(dataset) : Len(dataset[f].value) # Len(dataset[g].value)
  \/ \E f, g \in 1..Len(dataset) :
       \E j \in 1..Len(dataset[f].value), k \in 1..Len(dataset[g].value) :
         Len(dataset[f].value[j].value) # Len(dataset[g].value[k].value)

\* Aggregation is unweighted at each level: the family centroid is the mean
\* of the centroids of its species, the global centroid the mean of the
\* centroids of the families.
C15_Unweighted ==
  /\ FamilyCharted =>
       /\ chart[1].result.points =
            [k \in 1..Len(ChartedFamily) |-> Mean(SpeciesLeaves(ChartedFamily[k].value))]
       /\ chart[1].result.centroid = UnweightedFamilyCentroid(ChartedFamily)
  /\ MacroCharted =>
       /\ chart[1].result.points =
            [f \in 1..Len(dataset) |-> UnweightedFamilyCentroid(dataset[f].value)]
       /\ chart[1].result.centroid = Mean(chart[1].result.points)

\* C15 as stated: aggregation is unweighted at each level, and when group
\* sizes differ neither the family centroid nor the global centroid equals
\* the mean over all the leaf instances below it.
C15_Original ==
  /\ C15_Unweighted
  /\ FamilyCharted /\ SpeciesSizesDiffer(ChartedFamily) =>
       chart[1].result.centroid # Mean(FamilyLeaves(ChartedFamily))
  /\ MacroCharted /\ FamilySizesDiffer =>
       chart[1].result.centroid # Mean(DatasetLeaves)

\* C15 amended: aggregation is unweighted at each level; the centroid so
\* computed equals the mean over all the leaf instances whenever the groups
\* are of one size, and when group sizes differ it may differ from that
\* mean but need not.
C15_Amended ==
  /\ C15_Unweighted
  /\ FamilyCharted /\ ~SpeciesSizesDiffer(ChartedFamily) =>
       chart[1].result.centroid = Mean(FamilyLeaves(ChartedFamily))
  /\ MacroCharted /\ ~FamilySizesDiffer =>
       chart[1].result.centroid = Mean(DatasetLeaves)

\* A family of a species of two instances and a species of one has been
\* charted, and its centroid is not the mean over the three instances.
C15_Witness ==
  /\ FamilyCharted
  /\ Len(ChartedFamily) = 2
  /\ Len(ChartedFamily[1].value) = 2
  /\ Len(ChartedFamily[2].value) = 1
  /\ chart[1].result.centroid # Mean(FamilyLeaves(ChartedFamily))

\* ---- C16

\* The chart that the construction recorded in chart would give with the
\* unit circle base_uc.
ChartWith(base_uc) ==
  CASE chart[1].kind = "Instance_RC" -> Instance_RC(base_uc, dataset, chart[1].arg)
    [] chart[1].kind = "Species_RC"  -> Species_RC(base_uc, dataset, chart[1].arg)
    [] chart[1].kind = "Family_RC"   -> Family_RC(base_uc, dataset, chart[1].arg)
    [] chart[1].kind = "Macro_RC"    -> Macro_RC(base_uc, dataset)

\* C16 as stated: whatever set_uc_mapping calls (on Base_RC or a subclass)
\* and constructions came before, a chart is computed with the axis count and
\* the poles of the mapping most recently set, on whichever class; and no
\* centroid is computed before a mapping has been set.
C16_MostRecentMapping ==
  pc = "constructed" =>
    IF last_mapping = None
    THEN chart[1].result.exception # "none"
    ELSE chart[1].result = ChartWith(<<Mapped_Unit_Circle(last_mapping[1])>>)

\* A mapping of one family has been set on Base_RC, then one of two families
\* on a subclass, and the species chart constructed after that has the
\* centroid of the one-family mapping, not that of the mapping set last.
C16_Witness ==
  /\ pc = "constructed"
  /\ chart[1].kind = "Species_RC"
  /\ chart[1].result.exception = "none"
  /\ unit_circle["Base_RC"] # None
  /\ unit_circle["Base_RC"][1].N = 1
  /\ unit_circle["Species_RC"] # None
  /\ unit_circle["Species_RC"][1].N = 2
  /\ last_mapping = <<unit_circle["Species_RC"][1].mapping>>
  /\ chart[1].result = ChartWith(unit_circle["Base_RC"])
  /\ chart[1].result.centroid #
       ChartWith(<<Mapped_Unit_Circle(last_mapping[1])>>).centroid

\* ---- C18

\* A group with nothing in it, at or below a species, a family, the dataset.
SpeciesHasEmpty(instances) ==
  \/ instances = <<>>
  \/ \E i \in 1..Len(instances) : instances[i].value = <<>>

FamilyHasEmpty(species_items) ==
  \/ species_items = <<>>
  \/ \E k \in 1..Len(species_items) : SpeciesHasEmpty(species_items[k].value)

DatasetHasEmpty ==
  \/ dataset = <<>>
  \/ \E f \in 1..Len(dataset) : FamilyHasEmpty(dataset[f].value)

\* The group of the construction recorded in chart, if the dataset has it:
\* the aavs of the instance, the instances of the species, the species of
\* the family, the families of the dataset.
ChartedGroup ==
  CASE chart[1].kind = "Instance_RC" ->
         LET entry == SpeciesEntry(dataset, chart[1].arg)
         IN  IF entry = None THEN None ELSE Lookup(entry[1], chart[1].arg)
    [] chart[1].kind = "Species_RC" -> SpeciesEntry(dataset, chart[1].arg)
    [] chart[1].kind = "Family_RC"  -> Lookup(dataset, chart[1].arg)
    [] chart[1].kind = "Macro_RC"   -> <<dataset>>

\* The construction is of an empty group.
ChartedIsEmpty ==
  /\ pc = "constructed"
  /\ ChartedGroup # None
  /\ ChartedGroup[1] = <<>>

\* The construction is of a group that is empty or has an empty group
\* somewhere below it.
ChartedHasEmpty ==
  /\ pc = "constructed"
  /\ ChartedGroup # None
  /\ CASE chart[1].kind = "Instance_RC" -> ChartedGroup[1] = <<>>
        [] chart[1].kind = "Species_RC"  -> SpeciesHasEmpty(ChartedGroup[1])
        [] chart[1].kind = "Family_RC"   -> FamilyHasEmpty(ChartedGroup[1])
        [] chart[1].kind = "Macro_RC"    -> DatasetHasEmpty

\* C18 as stated: aggregating an empty group (an instance with no axial
\* values, a species with no instances, a family with no species, a dataset
\* with no families) does not raise, and a point is handed to the enclosing
\* levels, whose construction does not raise either.
C18_Original ==
  ChartedHasEmpty /\ unit_circle["Base_RC"] # None =>
    chart[1].result.exception = "none"

\* C18 amended: aggregating an empty group raises ZeroDivisionError (for an
\* instance, once a mapping is set on Base_RC); no chart and no point is
\* produced, and the exception leaves every enclosing construction as well.
C18_Amended ==
  /\ ChartedIsEmpty /\ chart[1].kind # "Instance_RC" =>
       chart[1].result = Raised("ZeroDivisionError")
  /\ ChartedHasEmpty /\ unit_circle["Base_RC"] # None =>
       chart[1].result = Raised("ZeroDivisionError")
  /\ ChartedHasEmpty => chart[1].result.exception # "none"

\* With a mapping of at least one family set, a family of a species with an
\* instance and a species with none has been charted, and the division by
\* zero of the empty species has left the construction of the family.
C18_Witness ==
  /\ ChartedHasEmpty
  /\ ~ChartedIsEmpty
  /\ chart[1].kind = "Family_RC"
  /\ unit_circle["Base_RC"] # None
  /\ unit_circle["Base_RC"][1].N >= 1
  /\ \E k \in 1..Len(ChartedGroup[1]) :
       /\ ChartedGroup[1][k].value # <<>>
       /\ ChartedGroup[1][k].value[1].value # <<>>
  /\ \E k \in 1..Len(ChartedGroup[1]) : ChartedGroup[1][k].value = <<>>
  /\ chart[1].result = Raised("ZeroDivisionError")

\* ---- C17

\* argmax(prediction): the first of the axes that hold the maximum, counted
\* from 0.
ArgMax(pred) ==
  CHOOSE a \in 0..(Len(pred) - 1) :
    /\ \A b \in 0..(Len(pred) - 1) : pred[b + 1] <= pred[a + 1]
    /\ \A b \in 0..(a - 1) : pred[b + 1] < pred[a + 1]

\* The hot axis holds the maximum of the prediction, alone or tied.
HotAxisHoldsMax(pred) == \A b \in 1..Len(pred) : pred[b] <= pred[hotbit + 1]

\* k / n to the given number of decimals, halves to the even neighbour.
Rounded(k, n, decimals) ==
  LET scale == 10 ^ decimals
      below == (k * scale) \div n
      twice == 2 * ((k * scale) % n)
      nearest == IF twice > n \/ (twice = n /\ below % 2 = 1)
                 THEN below + 1 ELSE below
  IN  Rat(nearest, scale)

FermiPlotted == pc = "plotted" /\ fermi[1].result.exception = "none"

InUnitInterval(x) == ~RatLess(x, <<0, 1>>) /\ ~RatLess(<<1, 1>>, x)

\* C17 as stated: the score is n_correct / n_total rounded to the precision,
\* n_total the number of instances of the species and n_correct the number
\* of instances whose argmax is the hot axis, ties for the maximum included;
\* the score lies in [0, 1].
C17_Original ==
  FermiPlotted =>
    /\ fermi[1].result.score =
         Rounded(Cardinality({i \in 1..Len(predictions) :
                                ArgMax(predictions[i]) = hotbit}),
                 Len(predictions), precision)
    /\ InUnitInterval(fermi[1].result.score)

\* C17 amended: an instance counts as correct if and only if the hot axis
\* holds the maximum of its prediction, alone or tied with other axes (with
\* no tie, that is argmax = hotbit); the score is that count over the number
\* of instances, rounded to the precision, and lies in [0, 1]; a species
\* without instances has no score (ZeroDivisionError).
C17_Amended ==
  /\ FermiPlotted =>
       /\ predictions # <<>>
       /\ fermi[1].result.score =
            Rounded(Cardinality({i \in 1..Len(predictions) :
                                   HotAxisHoldsMax(predictions[i])}),
                    Len(predictions), precision)
       /\ InUnitInterval(fermi[1].result.score)
       /\ (\A i \in 1..Len(predictions) :
             HotAxisHoldsMax(predictions[i]) => ArgMax(predictions[i]) = hotbit)
          => fermi[1].result.score =
               Rounded(Cardinality({i \in 1..Len(predictions) :
                                      ArgMax(predictions[i]) = hotbit}),
                       Len(predictions), precision)
  /\ pc = "plotted" /\ SpeciesPredictions(dataset, fermi[1].species) = <<<<>>>> =>
       fermi[1].result = Raised("ZeroDivisionError")

\* A species has been plotted of which an instance has the hot axis tied for
\* the maximum behind an earlier axis, and its score counts that instance.
C17_Witness ==
  /\ FermiPlotted
  /\ Len(predictions) = 3
  /\ \E i \in 1..Len(predictions) :
       HotAxisHoldsMax(predictions[i]) /\ ArgMax(predictions[i]) # hotbit
  /\ fermi[1].result.score #
       Rounded(Cardinality({i \in 1..Len(predictions) :
                              ArgMax(predictions[i]) = hotbit}),
               Len(predictions), precision)

\* ---- C19

\* ceil(proportion * count) for a proportion n/d >= 0 and a count >= 0: the
\* least integer not below the product.
CeilOfProduct(proportion_, count_) ==
  CHOOSE k \in 0..(proportion_[1] * count_ + 1) :
    /\ k * proportion_[2] >= proportion_[1] * count_
    /\ (k - 1) * proportion_[2] < proportion_[1] * count_

OutsideUnitInterval(x) == x[1] < 0 \/ x[1] > x[2]

\* Everything the iterator has yielded and has yet to yield.
AllBools == partition[1].yielded \o partition[1].iterator

\* C19: random_partitioner fails with an error, yielding nothing and without
\* clamping, for every proportion < 0 or > 1 and every count; for every
\* proportion in [0, 1] (and a count >= 0) the iterator it returns goes over
\* exactly count booleans, exactly ceil(proportion * count) of them True.
C19_RandomPartitioner ==
  pc = "partitioned" =>
    /\ OutsideUnitInterval(proportion) => partition[1] = Raised("ValueError")
    /\ ~OutsideUnitInterval(proportion) /\ count >= 0 =>
         /\ partition[1].exception = "none"
         /\ Len(AllBools) = count
         /\ \A i \in 1..Len(AllBools) : AllBools[i] \in BOOLEAN
         /\ Cardinality({i \in 1..Len(AllBools) : AllBools[i]})
              = CeilOfProduct(proportion, count)

\* A third of four has been asked for, and the iterator, two booleans
\* yielded and two to go, has two True among the four, the first of them
\* not in front.
C19_Witness ==
  /\ pc = "partitioned"
  /\ proportion = <<1, 3>>
  /\ count = 4
  /\ partition[1].exception = "none"
  /\ Len(partition[1].yielded) = 2
  /\ Len(partition[1].iterator) = 2
  /\ ~AllBools[1]
  /\ Cardinality({i \in 1..4 : AllBools[i]}) = 2

\* ---- C21

\* C21 as stated: the family of an instance name is the family of its
\* species, get_family(n) = get_family(isolate_species(n)), so that the
\* family key an instance is filed and looked up under is the key its
\* species is looked up under.
C21_FamilyOfSpecies ==
  pc \in {"classified", "ranked"} => family = get_family(species)

\* A name has been classified whose species itself ends in a separator and
\* digits: the instance is of no known family, its species of a known one.
C21_Witness ==
  /\ pc = "classified"
  /\ isolate_species(species) # species
  /\ family = Unknown
  /\ get_family(species) # Unknown

\* ---- C22

\* The orders of the rule table that start at one of its rules and go
\* round. In whatever order the table is read, the family returned is that
\* of a rule that matches, and each rule that matches is the first to match
\* in the order that starts at it: these orders stand for all the
\* permutations of the table.
StartingAt(i) ==
  [k \in 1..Len(iupac_suffices) |-> ((i + k - 2) % Len(iupac_suffices)) + 1]

Reversed == [k \in 1..Len(iupac_suffices) |-> Len(iupac_suffices) + 1 - k]

TableOrders == {StartingAt(i) : i \in 1..Len(iupac_suffices)}

\* The rules whose suffix ends s, letter case ignored.
C22_Matching(s) ==
  {i \in 1..Len(iupac_suffices) : EndsWithFolded(s, iupac_suffices[i].suffix)}

\* C22: at most one of the suffix rules of get_family matches the end of
\* the species, and the family returned is the same with the rule table in
\* any other order.
C22_OrderIndependent ==
  pc = "classified" =>
    /\ Cardinality(C22_Matching(species)) <= 1
    /\ \A order \in TableOrders :
         get_family_in(Permuted(iupac_suffices, order), name) = family

\* A name that holds the suffix of the ketones inside and that of the
\* alkenes at its end has been classified; one rule matches its end, and the
\* table read backwards gives the same family.
C22_Witness ==
  /\ pc = "classified"
  /\ name = <<"N", "o", "n", "e", "n", "e">>
  /\ Cardinality(C22_Matching(species)) = 1
  /\ family = Alkenes
  /\ get_family_in(Permuted(iupac_suffices, Reversed), name) = Alkenes

\* ---- C23

\* C23 as stated, its first part: after any sequence of set_progress,
\* increment, set_max and reset calls, those that raise included,
\* curr_val <= maximum.
C23_CurrValWithinMaximum == pc = "bar" => curr_val <= maximum

\* A call has raised ValueError and left the bar with a maximum below its
\* value, the widget configured to that maximum and the text still showing
\* the maximum of before.
C23_Witness ==
  /\ pc = "bar"
  /\ raised = "ValueError"
  /\ curr_val > maximum
  /\ prog_bar = [value |-> curr_val, maximum |-> maximum]
  /\ style_text # ProgressText(curr_val, maximum)

\* ---- C24

\* Check i is checked: its variable holds its value.
Checked(i) == var[i] = data[i]

\* C24 as stated: after any sequence of clicks on single checks, toggle_all
\* and wipe_output calls, the output list holds exactly the values of the
\* checks that are checked, each once, and no click has raised an error.
C24_OutputIsChecked ==
  pc = "panel" =>
    /\ \A i \in 1..Len(data) : Checked(i) <=> data[i] \in Range(output)
    /\ \A j, k \in 1..Len(output) : output[j] = output[k] => j = k
    /\ Range(output) \subseteq Range(data)
    /\ click_raised = "none"

\* After wipe_output a check that was still checked has been clicked: the
\* removal of its value from the emptied list has raised ValueError.
C24_Witness ==
  /\ pc = "panel"
  /\ click_raised = "ValueError"
  /\ Len(data) = 2
  /\ ~Checked(1)
  /\ Checked(2)
  /\ output = <<>>

====
